---- MODULE Spec2Model ----
(***************************************************************************)
(* Block-ingestion core of hivemind: Blocks (src/hive/indexer/blocks.py)   *)
(* and SyncHiveDb (src/hive/indexer/sync.py).                              *)
(*                                                                         *)
(* Python None, the empty string and SQL NULL are written 0: every block   *)
(* number, block id and timestamp of a real block is >= 1.                 *)
(***************************************************************************)
EXTENDS Integers, Sequences, FiniteSets, TLC

(***************************************************************************)
(* Program constants.                                                      *)
(***************************************************************************)
\* blocks.py:250  assert hive_head - cursor < 25, "fork too deep"
FORK_WINDOW == 25
\* sync.py:147    if self._ubound - self._lbound > 100 and allow_massive
MASSIVE_THRESHOLD == 100
\* sync.py:288    LIMIT_FOR_PROCESSED_BLOCKS = 1000
LIMIT_FOR_PROCESSED_BLOCKS == 1000

(***************************************************************************)
(* Bounds of the model.                                                    *)
(***************************************************************************)
\* highest block the upstream chain produces
MaxUpstreamHead == 130
\* number of times the upstream chain grows
MaxProduce == 2
\* highest branch suffix (branch 0 and the branches that replaced part of it)
MaxBranch == 1
\* number of process starts
MaxStarts == 2

VARIABLES
    \* ---- durable state (the database) ----
    hive_blocks,        \* rows of the hive_blocks table, committed
    ctx,                \* the application context: [attached, block]
    \* ---- the upstream chain ----
    up_chain,           \* up_chain[n]: branch suffix of upstream block n
    up_lib,             \* upstream last irreversible height
    produced,           \* growth events so far
    \* ---- Blocks class state (process lifetime) ----
    blocks_to_flush,    \* Blocks.blocks_to_flush
    ops_stats,          \* Blocks.ops_stats
    head_block_date,    \* Blocks._head_block_date (0: None)
    \* ---- domain sub-processors (only what the core hands them) ----
    accounts,           \* names registered with Accounts
    \* ---- SyncHiveDb state ----
    pc,                 \* position of the main thread
    conf,               \* [test_max_block, test_last_block_for_massive]
    bounds,             \* [lbound, ubound]: self._lbound, self._ubound
    were_mocks,         \* self._were_mocks_after_db_blocks
    can_continue,       \* signal latch: can_continue_thread()
    consumer,           \* consumer thread: [state, lbound, num]
    producer,           \* producer thread: [state, fetched]
    starts,             \* process starts so far
    \* ---- observation of the last operation ----
    last                \* what the last step did (see NoOp)

vars == <<hive_blocks, ctx, up_chain, up_lib, produced,
          blocks_to_flush, ops_stats, head_block_date, accounts,
          pc, conf, bounds, were_mocks, can_continue, consumer, producer,
          starts, last>>

(***************************************************************************)
(* Small helpers.                                                          *)
(***************************************************************************)
Min(a, b) == IF a <= b THEN a ELSE b

Max(a, b) == IF a >= b THEN a ELSE b

(***************************************************************************)
(* Block ids.  A block_id is a hex string whose first 8 characters are the *)
(* block number; the remaining characters distinguish blocks of the same   *)
(* height on different branches.  Here an id is the integer                *)
(* num * SuffixSpace + suffix.                                             *)
(***************************************************************************)
SuffixSpace == MaxBranch + 1

BlockId(num, sfx) == num * SuffixSpace + sfx

\* int(block['block_id'][:8], base=16)
NumOfBlockId(block_id) == block_id \div SuffixSpace

(***************************************************************************)
(* The upstream chain (the provider is trusted for contents and ordering). *)
(***************************************************************************)
up_head == Len(up_chain)

\* branch suffix of block n; blocks not yet produced (and mock blocks past
\* the database's range) continue the branch of the upstream head
BranchAt(n) ==
    IF n = 0 THEN 0
    ELSE IF n <= up_head THEN up_chain[n]
    ELSE IF up_head = 0 THEN 0 ELSE up_chain[up_head]

\* the timestamp of a block: later blocks are later, and two blocks of the
\* same height on different branches are told apart
Timestamp(n, sfx) == n * SuffixSpace + sfx

UpstreamBlock(n) ==
    [block_id     |-> BlockId(n, BranchAt(n)),
     previous     |-> BlockId(n - 1, BranchAt(n - 1)),
     timestamp    |-> Timestamp(n, BranchAt(n)),
     transactions |-> <<>>]

\* provider.get(n) for the range lo..hi
UpstreamBlocks(lo, hi) == [i \in 1..(hi - lo + 1) |-> UpstreamBlock(lo + i - 1)]

(***************************************************************************)
(* Operations of a block (blocks.py:151-209 reads these fields).           *)
(***************************************************************************)
OpPow(a)           == [type |-> "pow_operation", value |-> [worker_account |-> a]]

OpPow2(a)          == [type |-> "pow2_operation",
                       value |-> [work |-> [value |-> [input |-> [worker_account |-> a]]]]]

OpCreate(a)        == [type |-> "account_create_operation", value |-> [new_account_name |-> a]]

OpCreateDeleg(a)   == [type |-> "account_create_with_delegation_operation",
                       value |-> [new_account_name |-> a]]

OpCreateClaimed(a) == [type |-> "create_claimed_account_operation",
                       value |-> [new_account_name |-> a]]

OpUpdate(a)        == [type |-> "account_update_operation", value |-> [account |-> a]]

OpUpdate2(a)       == [type |-> "account_update2_operation", value |-> [account |-> a]]

OpComment(a, p)    == [type |-> "comment_operation", value |-> [author |-> a, permlink |-> p]]

OpDelete(a, p)     == [type |-> "delete_comment_operation",
                       value |-> [author |-> a, permlink |-> p]]

OpOptions(a, p)    == [type |-> "comment_options_operation",
                       value |-> [author |-> a, permlink |-> p]]

OpVote(v, a, p)    == [type |-> "vote_operation",
                       value |-> [voter |-> v, author |-> a, permlink |-> p]]

OpTransfer(f, t)   == [type |-> "transfer_operation", value |-> [from |-> f, to |-> t]]

OpCustomJson(a)    == [type |-> "custom_json_operation", value |-> [id |-> "follow", account |-> a]]

OpOther(a)         == [type |-> "claim_account_operation", value |-> [creator |-> a]]

\* enumerate(block['transactions']) x tx['operations'], in scan order
RECURSIVE FlatOpsFrom(_, _)
FlatOpsFrom(txs, tx_idx) ==
    IF tx_idx > Len(txs) THEN <<>>
    ELSE [i \in 1..Len(txs[tx_idx].operations) |->
             [tx_idx |-> tx_idx - 1, operation |-> txs[tx_idx].operations[i]]]
         \o FlatOpsFrom(txs, tx_idx + 1)

FlatOps(txs) == FlatOpsFrom(txs, 1)

(***************************************************************************)
(* Events: what the core asks of the database and of the sub-processors,   *)
(* in the order it asks.  known: the names Accounts has at that moment.    *)
(***************************************************************************)
Event(call, num, date, arg, known) ==
    [call |-> call, num |-> num, date |-> date, arg |-> arg, known |-> known]

\* which call (if any) fails: block index in the batch, call name, op index
NoFail == [blk |-> 0, call |-> "", idx |-> 0]

(***************************************************************************)
(* Block Store                                                             *)
(***************************************************************************)
\* the highest num of rows[lo..hi] (0: none), by halves; the midpoint and
\* the two halves' results are bound as values (mid, a, b), so that each is
\* computed once
RECURSIVE MaxNum(_, _, _)
MaxNum(rows, lo, hi) ==
    IF lo > hi THEN 0
    ELSE IF lo = hi THEN rows[lo].num
    ELSE CHOOSE n \in UNION {{Max(a, b) : a \in {MaxNum(rows, lo, mid)}, b \in {MaxNum(rows, mid + 1, hi)}}
                             : mid \in {(lo + hi) \div 2}} : TRUE

\* SELECT num FROM hive_blocks ORDER BY num DESC LIMIT 1, or 0
head_num(rows) == MaxNum(rows, 1, Len(rows))

\* SELECT created_at FROM hive_blocks ORDER BY num DESC LIMIT 1, or ''
head_date(rows) ==
    IF rows = <<>> THEN 0
    ELSE LET h == head_num(rows)
         IN  rows[CHOOSE i \in DOMAIN rows : rows[i].num = h].date

\* SELECT num, created_at date, hash FROM hive_blocks WHERE num = :num LIMIT 1
\* (0 when there is no such row: dict(None) raises)
_get(rows, num) ==
    IF \E i \in DOMAIN rows : rows[i].num = num
    THEN LET r == rows[CHOOSE i \in DOMAIN rows : rows[i].num = num]
         IN  [num |-> r.num, date |-> r.date, hash |-> r.hash]
    ELSE [num |-> 0, date |-> 0, hash |-> 0]

\* variant: the staged header takes prev from the block's own id
_push_prev_from_id(btf, block) ==
    Append(btf, [num  |-> NumOfBlockId(block.block_id),
                 hash |-> block.block_id,
                 prev |-> block.block_id,
                 txs  |-> Len(block.transactions),
                 ops  |-> Len(FlatOps(block.transactions)),
                 date |-> block.timestamp])

\* Blocks._push: derive num from block_id and stage the header
_push(btf, block) ==
    Append(btf, [num  |-> NumOfBlockId(block.block_id),
                 hash |-> block.block_id,
                 prev |-> block.previous,
                 txs  |-> Len(block.transactions),
                 ops  |-> Len(FlatOps(block.transactions)),
                 date |-> block.timestamp])

\* INSERT INTO hive_blocks ... VALUES v1, v2, ...: num is the primary key,
\* and an empty VALUES list is no statement.  [ok, rows]
InsertRows(rows, values) ==
    LET new == {values[i].num : i \in DOMAIN values}
        old == {rows[i].num : i \in DOMAIN rows}
        dup == Cardinality(new) # Len(values) \/ new \cap old # {}
    IN  IF values = <<>> \/ dup
        THEN [ok |-> FALSE, rows |-> rows]
        ELSE [ok |-> TRUE, rows |-> rows \o values]

\* variant: the DELETE takes the rows above num instead of the row of num
DeleteRowsAbove(rows, num) == SelectSeq(rows, LAMBDA r : r.num <= num)

\* DELETE FROM hive_blocks WHERE num = :num
DeleteRow(rows, num) == SelectSeq(rows, LAMBDA r : r.num # num)

(***************************************************************************)
(* Python dicts: functions whose domain is the set of keys present.        *)
(***************************************************************************)
EmptyDict == [k \in {} |-> 0]

Put(d, k, v) == [x \in DOMAIN d \cup {k} |-> IF x = k THEN v ELSE d[x]]

\* Blocks.merge_ops_stats
merge_ops_stats(od1, od2) ==
    [k \in DOMAIN od1 \cup DOMAIN od2 |->
        IF k \in DOMAIN od1 /\ k \in DOMAIN od2 THEN od1[k] + od2[k]
        ELSE IF k \in DOMAIN od1 THEN od1[k] ELSE od2[k]]

\* if op_type in cls.ops_stats: += 1 else: = 1
CountOp(stats, op_type) ==
    Put(stats, op_type, IF op_type \in DOMAIN stats THEN stats[op_type] + 1 ELSE 1)

(***************************************************************************)
(* Virtual-Ops Preparer                                                    *)
(***************************************************************************)
\* "{}/{}".format(author, permlink)
VopKey(author, permlink) == author \o "/" \o permlink

VopTypes == {"curation_reward_operation", "author_reward_operation",
             "comment_reward_operation", "effective_comment_vote_operation",
             "comment_payout_update_operation"}

\* key and val of one vop (blocks.py:108-126); key "" stands for None
VopKeyOf(vop) ==
    IF vop.type = "curation_reward_operation"
    THEN VopKey(vop.value.comment_author, vop.value.comment_permlink)
    ELSE IF vop.type \in VopTypes
    THEN VopKey(vop.value.author, vop.value.permlink)
    ELSE ""

VopValOf(vop) ==
    IF vop.type = "curation_reward_operation" THEN [reward |-> vop.value.reward]
    ELSE IF vop.type = "author_reward_operation"
    THEN [hbd_payout |-> vop.value.hbd_payout, hive_payout |-> vop.value.hive_payout,
          vesting_payout |-> vop.value.vesting_payout]
    ELSE IF vop.type = "comment_reward_operation"
    THEN [payout |-> vop.value.payout, author_rewards |-> vop.value.author_rewards,
          total_payout_value |-> vop.value.total_payout_value,
          curator_payout_value |-> vop.value.curator_payout_value,
          beneficiary_payout_value |-> vop.value.beneficiary_payout_value]
    ELSE IF vop.type = "effective_comment_vote_operation"
    THEN [pending_payout |-> vop.value.pending_payout]
    ELSE [is_paidout |-> TRUE]

\* vote_ops.append(vop): vote_ops is a dict, which has no append; the
\* statement raises AttributeError
VoteOpsAppend(vote_ops, vop) == [raised |-> TRUE, vote_ops |-> vote_ops]

\* Blocks.prepare_vops: [raised, vote_ops, comment_payout_ops]
RECURSIVE prepare_vops_from(_, _, _)
prepare_vops_from(vopsList, i, acc) ==
    IF i > Len(vopsList) THEN acc
    ELSE LET vop == vopsList[i]
             key == VopKeyOf(vop)
             app == IF vop.type = "effective_comment_vote_operation"
                    THEN VoteOpsAppend(acc.vote_ops, vop)
                    ELSE [raised |-> FALSE, vote_ops |-> acc.vote_ops]
             cpo == acc.comment_payout_ops
             entry == [op_type |-> vop.type, val |-> VopValOf(vop)]
         IN  IF app.raised
             THEN [acc EXCEPT !.raised = TRUE]
             ELSE prepare_vops_from(vopsList, i + 1,
                    [raised |-> FALSE,
                     vote_ops |-> app.vote_ops,
                     comment_payout_ops |->
                        IF key = "" THEN cpo
                        ELSE IF key \in DOMAIN cpo
                        THEN Put(cpo, key, Append(cpo[key], entry))
                        ELSE Put(cpo, key, <<entry>>)])

prepare_vops(vopsList) ==
    prepare_vops_from(vopsList, 1,
        [raised |-> FALSE, vote_ops |-> EmptyDict, comment_payout_ops |-> EmptyDict])

\* the virtual operations of the blocks of a call: raw[num] is what
\* hived.get_virtual_operations(num) returns, preloaded[num] what the
\* caller's map holds for initial sync
NoVops == [raw |-> EmptyDict, preloaded |-> EmptyDict]

(***************************************************************************)
(* Block Processor.  The state a call works on is a record                 *)
(*   rows   committed rows of hive_blocks                                  *)
(*   work   the rows the open transaction sees                             *)
(*   trx    a transaction is open                                          *)
(*   btf, hbd, stats   Blocks.blocks_to_flush, _head_block_date, ops_stats *)
(*   accts  the names Accounts has registered                              *)
(*   log    the events of the call, raised: an exception is propagating    *)
(***************************************************************************)
Log(st, call, num, date, arg) ==
    [st EXCEPT !.log = Append(@, Event(call, num, date, arg, st.accts))]

Raise(st) == [st EXCEPT !.raised = TRUE]

CreatingTypes == {"pow_operation", "pow2_operation", "account_create_operation",
                  "account_create_with_delegation_operation",
                  "create_claimed_account_operation"}

\* the account a creating operation introduces (blocks.py:157-166)
CreatedName(operation) ==
    IF operation.type = "pow_operation" THEN operation.value.worker_account
    ELSE IF operation.type = "pow2_operation"
    THEN operation.value.work.value.input.worker_account
    ELSE operation.value.new_account_name

\* first scan (blocks.py:150-166)
account_names(flat) ==
    {CreatedName(flat[i].operation) :
        i \in {j \in DOMAIN flat : flat[j].operation.type \in CreatingTypes}}

\* Accounts.register(account_names, date)
Register(st, num, names) ==
    [Log(st, "Accounts.register", num, st.hbd, names) EXCEPT !.accts = @ \cup names]

\* variant: the accounts of a vote are marked dirty in initial sync too
DispatchCallsVoteAlways(e, is_initial_sync) ==
    LET t  == e.operation.type
        op == e.operation.value
    IN  IF t \in {"account_update_operation", "account_update2_operation"}
        THEN IF ~is_initial_sync THEN <<[call |-> "Accounts.dirty", arg |-> op.account]>>
             ELSE <<>>
        ELSE IF t = "comment_operation"
        THEN <<[call |-> "Posts.comment_op", arg |-> op]>>
             \o (IF ~is_initial_sync
                 THEN <<[call |-> "Accounts.dirty", arg |-> op.author]>> ELSE <<>>)
        ELSE IF t = "delete_comment_operation"
        THEN <<[call |-> "Posts.delete_op", arg |-> op]>>
        ELSE IF t = "comment_options_operation"
        THEN <<[call |-> "Posts.comment_options_op", arg |-> op]>>
        ELSE IF t = "vote_operation"
        THEN <<[call |-> "Accounts.dirty", arg |-> op.author],
               [call |-> "Accounts.dirty", arg |-> op.voter]>>
        ELSE IF t = "transfer_operation"
        THEN <<[call |-> "Payments.op_transfer", arg |-> [op |-> op, tx_idx |-> e.tx_idx]]>>
        ELSE <<>>

\* the sub-processor calls one operation is dispatched to (blocks.py:183-207),
\* as <<call, argument>> pairs in call order
DispatchCalls(e, is_initial_sync) ==
    LET t  == e.operation.type
        op == e.operation.value
    IN  IF t \in {"account_update_operation", "account_update2_operation"}
        THEN IF ~is_initial_sync THEN <<[call |-> "Accounts.dirty", arg |-> op.account]>>
             ELSE <<>>
        ELSE IF t = "comment_operation"
        THEN <<[call |-> "Posts.comment_op", arg |-> op]>>
             \o (IF ~is_initial_sync
                 THEN <<[call |-> "Accounts.dirty", arg |-> op.author]>> ELSE <<>>)
        ELSE IF t = "delete_comment_operation"
        THEN <<[call |-> "Posts.delete_op", arg |-> op]>>
        ELSE IF t = "comment_options_operation"
        THEN <<[call |-> "Posts.comment_options_op", arg |-> op]>>
        ELSE IF t = "vote_operation"
        THEN IF ~is_initial_sync
             THEN <<[call |-> "Accounts.dirty", arg |-> op.author],
                    [call |-> "Accounts.dirty", arg |-> op.voter]>>
             ELSE <<>>
        ELSE IF t = "transfer_operation"
        THEN <<[call |-> "Payments.op_transfer", arg |-> [op |-> op, tx_idx |-> e.tx_idx]]>>
        ELSE <<>>

RECURSIVE LogCalls(_, _, _, _)
LogCalls(st, num, calls, i) ==
    IF i > Len(calls) THEN st
    ELSE LogCalls(Log(st, calls[i].call, num, st.hbd, calls[i].arg), num, calls, i + 1)

\* blocks.py:141-147: stage the header; an unset head date takes the date of
\* this block
stage(st, block) ==
    [st EXCEPT !.btf = _push(@, block),
               !.hbd = IF @ = 0 THEN block.timestamp ELSE @]

\* blocks.py:150-168: first scan, then Accounts.register
register_accounts(st, num, flat, fail) ==
    IF fail.call = "Accounts.register" THEN Raise(st)
    ELSE Register(st, num, account_names(flat))

\* variant: the operation is not counted
count_op_skipped(st, op_type) == st

\* blocks.py:177-181
count_op(st, op_type) ==
    IF op_type # "custom_json_operation"
    THEN [st EXCEPT !.stats = CountOp(@, op_type)]
    ELSE st

\* variant: a custom_json operation is handed to CustomOp where the scan meets it
scan_op_json_inline(sc, e, num, is_initial_sync, failing) ==
    IF failing /\ DispatchCalls(e, is_initial_sync) # <<>>
    THEN [sc EXCEPT !.st = Raise(count_op(@, e.operation.type))]
    ELSE IF e.operation.type = "custom_json_operation"
    THEN [sc EXCEPT !.st = [Log(@, "CustomOp.process_ops", num, @.hbd, <<e.operation.value>>)
                              EXCEPT !.stats = merge_ops_stats(@, Put(EmptyDict, "custom_json_operation", 1))]]
    ELSE [sc EXCEPT !.st = LogCalls(count_op(@, e.operation.type), num,
                                    DispatchCalls(e, is_initial_sync), 1)]

\* one operation of the second scan (blocks.py:174-209); sc: [st, json_ops];
\* failing: a call this operation is dispatched to raises
scan_op(sc, e, num, is_initial_sync, failing) ==
    IF failing /\ DispatchCalls(e, is_initial_sync) # <<>>
    THEN [sc EXCEPT !.st = Raise(count_op(@, e.operation.type))]
    ELSE [st |-> LogCalls(count_op(sc.st, e.operation.type), num,
                          DispatchCalls(e, is_initial_sync), 1),
          json_ops |-> IF e.operation.type = "custom_json_operation"
                       THEN Append(sc.json_ops, e.operation.value)
                       ELSE sc.json_ops]

\* second scan (blocks.py:171-209): [st, json_ops]
RECURSIVE second_scan(_, _, _, _, _, _)
second_scan(sc, flat, i, num, is_initial_sync, fail_idx) ==
    IF i > Len(flat) \/ sc.st.raised THEN sc
    ELSE second_scan(scan_op(sc, flat[i], num, is_initial_sync, fail_idx = i),
                     flat, i + 1, num, is_initial_sync, fail_idx)

\* what CustomOp.process_ops returns: per-type counters of the ops it took
CustomOpStats(json_ops) == Put(EmptyDict, "custom_json_operation", Len(json_ops))

\* blocks.py:212-214
custom_json(sc, num, fail) ==
    IF sc.st.raised \/ sc.json_ops = <<>> THEN sc.st
    ELSE IF fail.call = "CustomOp.process_ops" THEN Raise(sc.st)
    ELSE [Log(sc.st, "CustomOp.process_ops", num, sc.st.hbd, sc.json_ops)
          EXCEPT !.stats = merge_ops_stats(@, CustomOpStats(sc.json_ops))]

\* what Posts.comment_payout_op returns: per-type counters
RECURSIVE PayoutStats(_, _)
PayoutStats(comment_payout_ops, keys) ==
    IF keys = {} THEN EmptyDict
    ELSE merge_ops_stats(
            Put(EmptyDict, "comment_payout",
                Len(comment_payout_ops[CHOOSE x \in keys : TRUE])),
            PayoutStats(comment_payout_ops, keys \ {CHOOSE x \in keys : TRUE}))

\* for k, v in vote_ops.items(): Votes.effective_comment_vote_op(k, v, date)
RECURSIVE NotifyVotes(_, _, _, _)
NotifyVotes(st, num, vote_ops, keys) ==
    IF keys = {} THEN st
    ELSE NotifyVotes(Log(st, "Votes.effective_comment_vote_op", num, st.hbd,
                         [key |-> CHOOSE x \in keys : TRUE,
                          val |-> vote_ops[CHOOSE x \in keys : TRUE]]),
                     num, vote_ops, keys \ {CHOOSE x \in keys : TRUE})

\* empty_vops (blocks.py:217-220)
empty_vops == [raised |-> FALSE, vote_ops |-> EmptyDict, comment_payout_ops |-> EmptyDict]

\* blocks.py:222-226, the value: [raised, vote_ops, comment_payout_ops]
block_vops(num, vops, is_initial_sync) ==
    IF is_initial_sync
    THEN IF num \in DOMAIN vops.preloaded THEN vops.preloaded[num] ELSE empty_vops
    ELSE prepare_vops(IF num \in DOMAIN vops.raw THEN vops.raw[num] ELSE <<>>)

\* blocks.py:225: the call to hived
get_virtual_operations(st, num, is_initial_sync, fail) ==
    IF st.raised \/ is_initial_sync THEN st
    ELSE IF fail.call = "hived.get_virtual_operations" THEN Raise(st)
    ELSE Log(st, "hived.get_virtual_operations", num, 0, 0)

\* blocks.py:226-229
notify_votes(st, num, got, fail) ==
    IF st.raised THEN st
    ELSE IF got.raised THEN Raise(st)
    ELSE IF DOMAIN got.vote_ops = {} THEN st
    ELSE IF fail.call = "Votes.effective_comment_vote_op" THEN Raise(st)
    ELSE NotifyVotes(st, num, got.vote_ops, DOMAIN got.vote_ops)

\* blocks.py:231-233
comment_payouts(st, num, got, fail) ==
    IF st.raised \/ DOMAIN got.comment_payout_ops = {} THEN st
    ELSE IF fail.call = "Posts.comment_payout_op" THEN Raise(st)
    ELSE [Log(st, "Posts.comment_payout_op", num, st.hbd, got.comment_payout_ops)
          EXCEPT !.stats = merge_ops_stats(@,
                    PayoutStats(got.comment_payout_ops, DOMAIN got.comment_payout_ops))]

\* blocks.py:216-233: virtual operations of the block
process_vops(st, num, got, is_initial_sync, fail) ==
    comment_payouts(
        notify_votes(get_virtual_operations(st, num, is_initial_sync, fail),
                     num, got, fail),
        num, got, fail)

\* cls._head_block_date = block_date (blocks.py:235)
SetHeadDate(st, block_date) ==
    IF st.raised THEN st ELSE [st EXCEPT !.hbd = block_date]

\* variant: Accounts.register is called after the second scan
process_ops_register_after_scan(st, num, flat, block_date, vops, is_initial_sync, fail) ==
    SetHeadDate(
        process_vops(
            custom_json(
                [second_scan([st |-> st, json_ops |-> <<>>],
                             flat, 1, num, is_initial_sync,
                             IF fail.call = "dispatch" THEN fail.idx ELSE 0)
                    EXCEPT !.st = IF @.raised THEN @
                                  ELSE register_accounts(@, num, flat, fail)],
                num, fail),
            num, block_vops(num, vops, is_initial_sync), is_initial_sync, fail),
        block_date)

\* blocks.py:150-235 for the staged block
process_ops(st, num, flat, block_date, vops, is_initial_sync, fail) ==
    SetHeadDate(
        process_vops(
            custom_json(
                second_scan([st |-> register_accounts(st, num, flat, fail),
                             json_ops |-> <<>>],
                            flat, 1, num, is_initial_sync,
                            IF fail.call = "dispatch" THEN fail.idx ELSE 0),
                num, fail),
            num, block_vops(num, vops, is_initial_sync), is_initial_sync, fail),
        block_date)

\* Blocks._process; fail: the call of this block that raises (NoFail: none)
_process(st, block, vops, is_initial_sync, fail) ==
    process_ops(stage(st, block), NumOfBlockId(block.block_id),
                FlatOps(block.transactions), block.timestamp, vops,
                is_initial_sync, fail)

(***************************************************************************)
(* Batch Driver                                                            *)
(***************************************************************************)
\* DB.query("START TRANSACTION")
StartTransaction(st) ==
    [Log(st, "START TRANSACTION", 0, 0, 0) EXCEPT !.work = st.rows, !.trx = TRUE]

\* DB.query("COMMIT")
Commit(st) ==
    [Log(st, "COMMIT", 0, 0, 0) EXCEPT !.rows = st.work, !.trx = FALSE]

\* the caller's error path: the open transaction is rolled back
Rollback(st) == [st EXCEPT !.work = st.rows, !.trx = FALSE]

\* Blocks._flush_blocks: one multi-row INSERT, then clear the buffer
_flush_blocks(st) ==
    LET ins == InsertRows(st.work, st.btf)
    IN  IF ins.ok
        THEN [Log(st, "_flush_blocks", 0, 0, Len(st.btf)) EXCEPT !.work = ins.rows, !.btf = <<>>]
        ELSE Raise(st)

\* for block in blocks: last_num = cls._process(...)   (blocks.py:79-83):
\* blocks[lo..hi] in order, stopping at the first that raises (the range is
\* folded by halves, which keeps the evaluation shallow; the order of the
\* blocks is that of the loop)
RECURSIVE process_blocks(_, _, _, _, _, _, _)
process_blocks(st, blocks, lo, hi, vops, is_initial_sync, fail) ==
    IF lo > hi \/ st.raised THEN st
    ELSE IF lo = hi
    THEN _process(st, blocks[lo], vops, is_initial_sync,
                  IF fail.blk = lo THEN fail ELSE NoFail)
    ELSE process_blocks(
            process_blocks(st, blocks, lo, (lo + hi) \div 2, vops, is_initial_sync, fail),
            blocks, (lo + hi) \div 2 + 1, hi, vops, is_initial_sync, fail)

\* variant: the block headers are flushed before the side tables
FlushStepsHeadersFirst ==
    <<"_flush_blocks", "PostDataCache.flush", "Tags.flush", "Votes.flush",
      "Follow.flush", "COMMIT">>

\* variant: COMMIT issued before the follow flush instead of after it
FlushStepsCommitBeforeFollow ==
    <<"PostDataCache.flush", "Tags.flush", "Votes.flush", "_flush_blocks",
      "COMMIT", "Follow.flush">>

\* the statements of process_multi after the block loop, in order
\* (blocks.py:88-94)
FlushSteps ==
    <<"PostDataCache.flush", "Tags.flush", "Votes.flush", "_flush_blocks",
      "Follow.flush", "COMMIT">>

RunStep(st, step, fail) ==
    IF fail.blk = 0 /\ fail.call = step THEN Raise(st)
    ELSE IF step = "_flush_blocks" THEN _flush_blocks(st)
    ELSE IF step = "COMMIT" THEN Commit(st)
    ELSE Log(st, step, 0, 0, 0)

RECURSIVE RunSteps(_, _, _, _)
RunSteps(st, steps, i, fail) ==
    IF i > Len(steps) \/ st.raised THEN st
    ELSE RunSteps(RunStep(st, steps[i], fail), steps, i + 1, fail)

\* Blocks.process_multi
process_multi(st, blocks, vops, is_initial_sync, fail) ==
    RunSteps(process_blocks(StartTransaction(st), blocks, 1, Len(blocks), vops,
                            is_initial_sync, fail),
             FlushSteps, 1, fail)

\* the flushers of process_multi that can fail
Flushers == {"PostDataCache.flush", "Tags.flush", "Votes.flush", "_flush_blocks",
             "Follow.flush"}

(***************************************************************************)
(* Fork Recovery                                                           *)
(***************************************************************************)
\* steem.get_block(num)['block_id']; 0 when upstream has no such block
\* (get_block returns None and the subscript raises)
steem_hash(num) == IF num >= 1 /\ num <= up_head THEN UpstreamBlock(num).block_id ELSE 0

\* variant: the block to pop is not compared with the head
RECURSIVE pop_from_any(_, _, _)
pop_from_any(work, blocks, i) ==
    IF i > Len(blocks) THEN [err |-> "", rows |-> work]
    ELSE pop_from_any(DeleteRow(work, blocks[i].num), blocks, i + 1)

\* Blocks._pop(blocks): [err, rows]
RECURSIVE pop_from(_, _, _)
pop_from(work, blocks, i) ==
    IF i > Len(blocks) THEN [err |-> "", rows |-> work]
    ELSE IF blocks[i].num # head_num(work)
    THEN [err |-> "can only pop head block", rows |-> work]
    ELSE pop_from(DeleteRow(work, blocks[i].num), blocks, i + 1)

_pop(rows, blocks) ==
    LET r == pop_from(rows, blocks, 1)
    IN  IF r.err = "" THEN r ELSE [err |-> r.err, rows |-> rows]

\* variant: the depth assertion is not made
RECURSIVE walk_back_unchecked(_, _, _, _)
walk_back_unchecked(rows, hive_head, cursor, to_pop) ==
    LET hive_block == _get(rows, cursor)
        upstream   == steem_hash(cursor)
    IN  IF hive_block.num = 0 \/ upstream = 0
        THEN [err |-> "TypeError", cursor |-> cursor, to_pop |-> to_pop]
        ELSE IF hive_block.hash = upstream
        THEN [err |-> "", cursor |-> cursor, to_pop |-> to_pop]
        ELSE walk_back_unchecked(rows, hive_head, cursor - 1, Append(to_pop, hive_block))

\* variant: the depth assertion admits one block more
RECURSIVE walk_back_one_deeper(_, _, _, _)
walk_back_one_deeper(rows, hive_head, cursor, to_pop) ==
    IF ~(hive_head - cursor <= FORK_WINDOW)
    THEN [err |-> "fork too deep", cursor |-> cursor, to_pop |-> to_pop]
    ELSE LET hive_block == _get(rows, cursor)
             upstream   == steem_hash(cursor)
         IN  IF hive_block.num = 0 \/ upstream = 0
             THEN [err |-> "TypeError", cursor |-> cursor, to_pop |-> to_pop]
             ELSE IF hive_block.hash = upstream
             THEN [err |-> "", cursor |-> cursor, to_pop |-> to_pop]
             ELSE walk_back_one_deeper(rows, hive_head, cursor - 1,
                                       Append(to_pop, hive_block))

\* the while loop of verify_head (blocks.py:249-260): [err, cursor, to_pop]
RECURSIVE walk_back(_, _, _, _)
walk_back(rows, hive_head, cursor, to_pop) ==
    IF ~(hive_head - cursor < FORK_WINDOW)
    THEN [err |-> "fork too deep", cursor |-> cursor, to_pop |-> to_pop]
    ELSE LET hive_block == _get(rows, cursor)
             upstream   == steem_hash(cursor)
         IN  IF hive_block.num = 0 \/ upstream = 0
             THEN [err |-> "TypeError", cursor |-> cursor, to_pop |-> to_pop]
             ELSE IF hive_block.hash = upstream
             THEN [err |-> "", cursor |-> cursor, to_pop |-> to_pop]
             ELSE walk_back(rows, hive_head, cursor - 1, Append(to_pop, hive_block))

\* the result of a successful _pop (blocks.py:272)
popped(p, to_pop) ==
    [err |-> p.err, rows |-> p.rows, to_pop |-> IF p.err = "" THEN to_pop ELSE <<>>]

\* variant: the fork point may be the last irreversible block itself
pop_forked_at_limit(rows, hive_head, last_irreversible, w) ==
    IF w.err # "" THEN [err |-> w.err, rows |-> rows, to_pop |-> <<>>]
    ELSE IF hive_head = w.cursor THEN [err |-> "", rows |-> rows, to_pop |-> <<>>]
    ELSE IF ~(w.cursor <= last_irreversible)
    THEN [err |-> "not proceeding until head is irreversible",
          rows |-> rows, to_pop |-> <<>>]
    ELSE popped(_pop(rows, w.to_pop), w.to_pop)

\* blocks.py:262-272, for the outcome w of the loop
pop_forked(rows, hive_head, last_irreversible, w) ==
    IF w.err # "" THEN [err |-> w.err, rows |-> rows, to_pop |-> <<>>]
    ELSE IF hive_head = w.cursor THEN [err |-> "", rows |-> rows, to_pop |-> <<>>]
    ELSE IF ~(w.cursor < last_irreversible)
    THEN [err |-> "not proceeding until head is irreversible",
          rows |-> rows, to_pop |-> <<>>]
    ELSE popped(_pop(rows, w.to_pop), w.to_pop)

\* blocks.py:243-272, for hive_head = cls.head_num()
verify_from(rows, hive_head, last_irreversible) ==
    IF hive_head = 0 THEN [err |-> "", rows |-> rows, to_pop |-> <<>>]
    ELSE pop_forked(rows, hive_head, last_irreversible,
                    walk_back(rows, hive_head, hive_head, <<>>))

\* Blocks.verify_head(steem): [err, rows, to_pop]
verify_head(rows, last_irreversible) ==
    verify_from(rows, head_num(rows), last_irreversible)

(***************************************************************************)
(* The application context of the upstream facility.                       *)
(***************************************************************************)
\* variant: hive.app_context_detach is called without the check; detaching
\* a detached context is an error of the facility (violation)
context_detach_unchecked(c) == [c EXCEPT !.attached = FALSE, !.violation = @ \/ ~c.attached]

\* SyncHiveDb._context_detach: detach only when attached
context_detach(c) == IF c.attached THEN [c EXCEPT !.attached = FALSE] ELSE c

\* SyncHiveDb._context_attach: attach at Blocks.head_num(); attaching an
\* attached context is an error of the facility (violation)
context_attach(c, rows) ==
    [attached |-> TRUE, block |-> head_num(rows),
     violation |-> c.violation \/ c.attached]

\* hive.app_next_block: the inclusive range of unprocessed blocks available
\* to the context, (0, 0) when there is none; a detached context sees no
\* new blocks
app_next_block(c, head) ==
    IF c.attached /\ up_head > head
    THEN [lbound |-> head + 1, ubound |-> up_head]
    ELSE [lbound |-> 0, ubound |-> 0]

(***************************************************************************)
(* Sync Manager                                                            *)
(***************************************************************************)
\* test caps a process may be started with (0: not configured)
CapLow == 3

CapHigh == 115

Confs == [test_max_block : {0, CapLow, CapHigh},
          test_last_block_for_massive : {0}]

\* the configuration of production: no test cap
PlainConfs == {c \in Confs : c.test_max_block = 0 /\ c.test_last_block_for_massive = 0}

\* what the last step did.  op: the operation; mode: "single" or "massive"
\* for a process_multi call; raised/err: it raised; head_before,
\* rows_before: the store before it; lo..hi: the nums of the batch;
\* attached: the context was attached while it ran; log: its events; txs:
\* the transactions of the blocks of the batch that have any, by num
NoOp == [op |-> "none", mode |-> "", raised |-> FALSE, err |-> "", head_before |-> 0,
         rows_before |-> <<>>, lo |-> 0, hi |-> 0, attached |-> FALSE, log |-> <<>>,
         txs |-> EmptyDict, stats_before |-> EmptyDict, vops |-> <<>>, got |-> empty_vops,
         to_pop |-> <<>>, periodic |-> {}, is_initial_sync |-> FALSE]

\* the Blocks state a call starts from
BlocksState ==
    [rows |-> hive_blocks, work |-> hive_blocks, trx |-> FALSE,
     btf |-> blocks_to_flush, hbd |-> head_block_date, stats |-> ops_stats,
     accts |-> accounts, log |-> <<>>, raised |-> FALSE]

\* the calls of a batch of n blocks that are made to fail: a call made for
\* the first, the middle or the last block, or a flusher
BatchFails(n, is_initial_sync) ==
    {NoFail}
    \cup {[blk |-> i, call |-> c, idx |-> 0] :
            i \in {1, (n + 1) \div 2, n},
            c \in {"Accounts.register"}
                  \cup (IF is_initial_sync THEN {} ELSE {"hived.get_virtual_operations"})}
    \cup {[blk |-> 0, call |-> c, idx |-> 0] : c \in Flushers}

\* variant: massive mode is entered from a difference of 100 on
DecideFromThreshold(lbound, ubound, allow_massive, mocks) ==
    [kind |-> IF ~(lbound # 0 /\ ubound # 0) THEN "continue"
              ELSE IF ubound - lbound >= MASSIVE_THRESHOLD /\ allow_massive THEN "massive"
              ELSE "single",
     lbound |-> lbound, ubound |-> ubound, mocks |-> mocks]

\* run(), lines 141-147: what to do with the range lbound..ubound
Decide(lbound, ubound, allow_massive, mocks) ==
    [kind |-> IF ~(lbound # 0 /\ ubound # 0) THEN "continue"
              ELSE IF ubound - lbound > MASSIVE_THRESHOLD /\ allow_massive THEN "massive"
              ELSE "single",
     lbound |-> lbound, ubound |-> ubound, mocks |-> mocks]

\* variant: the mock range starts one block too high
CappedOffByOne(last_imported_block, lbound, ubound, allow_massive, last_block_to_process) ==
    IF last_block_to_process = 0 THEN Decide(lbound, ubound, allow_massive, FALSE)
    ELSE IF last_imported_block >= last_block_to_process
    THEN [kind |-> "return", lbound |-> lbound, ubound |-> ubound, mocks |-> FALSE]
    ELSE IF ~(lbound # 0 /\ ubound # 0)
    THEN Decide(last_imported_block + 2, last_block_to_process, allow_massive, TRUE)
    ELSE Decide(lbound, Min(last_block_to_process, ubound), allow_massive, FALSE)

\* variant: the upper bound of a range of upstream blocks is not cut at the cap
CappedUnclamped(last_imported_block, lbound, ubound, allow_massive, last_block_to_process) ==
    IF last_block_to_process = 0 THEN Decide(lbound, ubound, allow_massive, FALSE)
    ELSE IF last_imported_block >= last_block_to_process
    THEN [kind |-> "return", lbound |-> lbound, ubound |-> ubound, mocks |-> FALSE]
    ELSE IF ~(lbound # 0 /\ ubound # 0)
    THEN Decide(last_imported_block + 1, last_block_to_process, allow_massive, TRUE)
    ELSE Decide(lbound, ubound, allow_massive, FALSE)

\* run(), lines 129-139: the cap of test_max_block (last_block_to_process)
Capped(last_imported_block, lbound, ubound, allow_massive, last_block_to_process) ==
    IF last_block_to_process = 0 THEN Decide(lbound, ubound, allow_massive, FALSE)
    ELSE IF last_imported_block >= last_block_to_process
    THEN [kind |-> "return", lbound |-> lbound, ubound |-> ubound, mocks |-> FALSE]
    ELSE IF ~(lbound # 0 /\ ubound # 0)
    THEN Decide(last_imported_block + 1, last_block_to_process, allow_massive, TRUE)
    ELSE Decide(lbound, Min(last_block_to_process, ubound), allow_massive, FALSE)

\* run(), lines 119-127: the range of app_next_block and the limit of
\* test_last_block_for_massive
Ranged(last_imported_block, nb, last_block_for_massive_sync, last_block_to_process) ==
    Capped(last_imported_block, nb.lbound,
           IF last_block_for_massive_sync # 0 /\ nb.lbound # 0
              /\ nb.lbound < last_block_for_massive_sync
           THEN last_block_for_massive_sync ELSE nb.ubound,
           ~(last_block_for_massive_sync # 0 /\ nb.lbound # 0
             /\ nb.lbound > last_block_for_massive_sync),
           last_block_to_process)

\* run(), lines 116-147: what this iteration of the main loop is to do
\* (kind), the values of self._lbound and self._ubound when it does it, and
\* whether it set self._were_mocks_after_db_blocks (mocks)
PlanAt(last_imported_block) ==
    Ranged(last_imported_block, app_next_block(ctx, last_imported_block),
           conf.test_last_block_for_massive, conf.test_max_block)

Plan == PlanAt(head_num(hive_blocks))

\* process start: class attributes take their defaults (blocks.py:24-26).
\* Blocks.__init__ binds head_date() to the instance, while the class
\* attribute the classmethods read keeps its default None.
Start(confs) ==
    /\ pc = "down"
    /\ starts < MaxStarts
    /\ \E c \in confs : conf' = c
    /\ starts' = starts + 1
    /\ blocks_to_flush' = <<>>
    /\ ops_stats' = EmptyDict
    /\ head_block_date' = 0
    /\ were_mocks' = FALSE
    /\ can_continue' = TRUE
    /\ bounds' = [lbound |-> 0, ubound |-> 0]
    /\ consumer' = [state |-> "idle", lbound |-> 0, ubound |-> 0, num |-> 0]
    /\ producer' = [state |-> "idle", fetched |-> 0]
    /\ pc' = "startup"
    /\ last' = NoOp
    /\ UNCHANGED <<hive_blocks, ctx, up_chain, up_lib, produced, accounts>>

\* the effect of verify_head with result r
VerifyHeadDone(r) ==
    /\ hive_blocks' = r.rows
    /\ pc' = IF r.err = "" THEN "run" ELSE "down"
    /\ last' = [NoOp EXCEPT !.op = "verify_head", !.raised = (r.err # ""),
                            !.err = r.err,
                            !.head_before = head_num(hive_blocks),
                            !.rows_before = hive_blocks,
                            !.attached = ctx.attached]

\* fork recovery check on startup
VerifyHead ==
    /\ pc = "startup"
    /\ VerifyHeadDone(verify_head(hive_blocks, up_lib))
    /\ UNCHANGED <<ctx, up_chain, up_lib, produced, blocks_to_flush, ops_stats,
                   head_block_date, accounts, conf, bounds, were_mocks, can_continue,
                   consumer, producer, starts>>

\* variant: the iteration is skipped where run() is to return
RunInterruptedContinues ==
    /\ pc = "run"
    /\ ~can_continue
    /\ pc' = "run"
    /\ last' = [NoOp EXCEPT !.op = "continue"]
    /\ UNCHANGED <<hive_blocks, ctx, up_chain, up_lib, produced, blocks_to_flush,
                   ops_stats, head_block_date, accounts, conf, bounds, were_mocks,
                   can_continue, consumer, producer, starts>>

\* run(), line 112: the latch is set
RunInterrupted ==
    /\ pc = "run"
    /\ ~can_continue
    /\ pc' = "exit"
    /\ last' = [NoOp EXCEPT !.op = "return"]
    /\ UNCHANGED <<hive_blocks, ctx, up_chain, up_lib, produced, blocks_to_flush,
                   ops_stats, head_block_date, accounts, conf, bounds, were_mocks,
                   can_continue, consumer, producer, starts>>

\* run(), lines 129-132: the test cap is reached
RunReachedCap ==
    /\ pc = "run"
    /\ can_continue
    /\ LET plan == Plan
       IN  /\ plan.kind = "return"
           /\ bounds' = [lbound |-> plan.lbound, ubound |-> plan.ubound]
    /\ pc' = "exit"
    /\ last' = [NoOp EXCEPT !.op = "return"]
    /\ UNCHANGED <<hive_blocks, ctx, up_chain, up_lib, produced, blocks_to_flush,
                   ops_stats, head_block_date, accounts, conf, were_mocks,
                   can_continue, consumer, producer, starts>>

\* run(), lines 141-142: nothing to process
RunIdle ==
    /\ pc = "run"
    /\ can_continue
    /\ LET plan == Plan
       IN  /\ plan.kind = "continue"
           /\ bounds' = [lbound |-> plan.lbound, ubound |-> plan.ubound]
           /\ were_mocks' = (were_mocks \/ plan.mocks)
    /\ last' = [NoOp EXCEPT !.op = "continue"]
    /\ UNCHANGED <<hive_blocks, ctx, up_chain, up_lib, produced, blocks_to_flush,
                   ops_stats, head_block_date, accounts, pc, conf, can_continue,
                   consumer, producer, starts>>

\* the caller's error path rolls an open transaction back
Outcome(st) == IF st.raised THEN Rollback(st) ELSE st

\* the transactions of the blocks that have any, by num
TransactionsOf(blocks) ==
    [n \in {NumOfBlockId(blocks[i].block_id) :
               i \in {j \in DOMAIN blocks : blocks[j].transactions # <<>>}} |->
        blocks[CHOOSE i \in DOMAIN blocks : NumOfBlockId(blocks[i].block_id) = n].transactions]

\* _periodic_actions (sync.py:171-184): the actions taken for block_num; the
\* two hourly ones are submitted to a pool of two workers
_periodic_actions(block_num) ==
    IF block_num % 1200 = 0 THEN {"PayoutStats.generate", "Mentions.refresh"}
    ELSE IF block_num % 200 = 0 THEN {"update_communities_posts_and_rank"}
    ELSE {}

\* what run() goes on to once process_multi has returned: in the single
\* branch self._periodic_actions(blocks[0]) (sync.py:169), in a massive run
\* nothing
AfterProcessMulti(mode, lo, raised) ==
    IF mode = "single" /\ ~raised THEN _periodic_actions(lo) ELSE {}

\* the effect of a process_multi call on blocks that left the Blocks state
\* out, and of what the caller does next with that result
CallDone(mode, lo, hi, blocks, is_initial_sync, out) ==
    /\ hive_blocks' = out.rows
    /\ blocks_to_flush' = out.btf
    /\ ops_stats' = out.stats
    /\ head_block_date' = out.hbd
    /\ accounts' = out.accts
    /\ last' = [NoOp EXCEPT !.op = "process_multi", !.mode = mode,
                            !.raised = out.raised,
                            !.head_before = head_num(hive_blocks),
                            !.lo = lo, !.hi = hi,
                            !.attached = ctx.attached, !.log = out.log,
                            !.periodic = AfterProcessMulti(mode, lo, out.raised),
                            !.is_initial_sync = is_initial_sync,
                            !.txs = TransactionsOf(blocks),
                            !.stats_before = ops_stats]

\* one process_multi call on blocks of nums lo..hi
CallProcessMulti(mode, lo, hi, blocks, vops, is_initial_sync, fail) ==
    CallDone(mode, lo, hi, blocks, is_initial_sync,
             Outcome(process_multi(BlocksState, blocks, vops, is_initial_sync, fail)))

\* variant: the iteration hands the whole range to process_multi
SingleIterationWholeRange ==
    /\ pc = "run"
    /\ can_continue
    /\ LET plan == Plan
       IN  /\ plan.kind = "single"
           /\ bounds' = [lbound |-> plan.lbound, ubound |-> plan.ubound]
           /\ were_mocks' = (were_mocks \/ plan.mocks)
           /\ \E fail \in BatchFails(1, FALSE) :
                 /\ CallProcessMulti("single", plan.lbound, plan.ubound,
                                     UpstreamBlocks(plan.lbound, plan.ubound),
                                     NoVops, FALSE, fail)
                 /\ pc' = IF last'.raised THEN "exit" ELSE "run"
    /\ UNCHANGED <<ctx, up_chain, up_lib, produced, conf, can_continue,
                   consumer, producer, starts>>

\* run(), lines 160-169: one single-mode iteration
SingleIteration ==
    /\ pc = "run"
    /\ can_continue
    /\ LET plan == Plan
       IN  /\ plan.kind = "single"
           /\ bounds' = [lbound |-> plan.lbound, ubound |-> plan.ubound]
           /\ were_mocks' = (were_mocks \/ plan.mocks)
           /\ \E fail \in BatchFails(1, FALSE) :
                 /\ CallProcessMulti("single", plan.lbound, plan.lbound,
                                     UpstreamBlocks(plan.lbound, plan.lbound),
                                     NoVops, FALSE, fail)
                 /\ pc' = IF last'.raised THEN "exit" ELSE "run"
    /\ UNCHANGED <<ctx, up_chain, up_lib, produced, conf, can_continue,
                   consumer, producer, starts>>

\* run(), lines 148-155: enter massive mode, detach, start the threads
MassiveBegin ==
    /\ pc = "run"
    /\ can_continue
    /\ LET plan == Plan
       IN  /\ plan.kind = "massive"
           /\ bounds' = [lbound |-> plan.lbound, ubound |-> plan.ubound]
           /\ were_mocks' = (were_mocks \/ plan.mocks)
           /\ consumer' = [state |-> "running", lbound |-> plan.lbound,
                           ubound |-> plan.ubound, num |-> 0]
           /\ producer' = [state |-> "running", fetched |-> plan.lbound - 1]
    /\ ctx' = context_detach(ctx)
    /\ pc' = "massive"
    /\ last' = [NoOp EXCEPT !.op = "massive_begin",
                            !.head_before = head_num(hive_blocks),
                            !.attached = ctx.attached]
    /\ UNCHANGED <<hive_blocks, up_chain, up_lib, produced, blocks_to_flush,
                   ops_stats, head_block_date, accounts, conf, can_continue, starts>>

\* variant: the next batch starts one block too high
NextLboundSkipping(lbound, ubound, n) == Min(lbound + n + 1, ubound + 1)

\* to = min(lbound + number_of_blocks_to_proceed, ubound + 1)   (sync.py:323)
NextLbound(lbound, ubound, n) == Min(lbound + n, ubound + 1)

\* blocks_data_provider.get(n) returns: the n blocks from lbound on are
\* in the provider's queue, or the latch is set
GetReturns(lbound, n) == ~can_continue \/ producer.fetched >= lbound + n - 1

\* variant: the consumer goes on to the next batch whatever the latch says
ConsumerBatchUnlatched ==
    /\ pc = "massive"
    /\ consumer.state = "running"
    /\ LET n  == Min(LIMIT_FOR_PROCESSED_BLOCKS, consumer.ubound - consumer.lbound + 1)
           to == NextLbound(consumer.lbound, consumer.ubound, n)
       IN  \E fail \in BatchFails(n, TRUE) :
                /\ CallProcessMulti("massive", consumer.lbound,
                                    consumer.lbound + n - 1,
                                    UpstreamBlocks(consumer.lbound,
                                                   consumer.lbound + n - 1),
                                    NoVops, TRUE, fail)
                /\ consumer' =
                     IF last'.raised THEN [consumer EXCEPT !.state = "raised"]
                     ELSE [consumer EXCEPT !.lbound = to, !.num = @ + 1,
                                           !.state = IF to <= consumer.ubound
                                                     THEN "running" ELSE "returned"]
                /\ can_continue' = IF last'.raised THEN FALSE ELSE can_continue
    /\ UNCHANGED <<ctx, up_chain, up_lib, produced, pc, conf, bounds,
                   were_mocks, producer, starts>>

\* _block_consumer, one iteration of the while loop (sync.py:312-361)
ConsumerBatch ==
    /\ pc = "massive"
    /\ consumer.state = "running"
    /\ GetReturns(consumer.lbound,
                  Min(LIMIT_FOR_PROCESSED_BLOCKS, consumer.ubound - consumer.lbound + 1))
    /\ LET n  == Min(LIMIT_FOR_PROCESSED_BLOCKS, consumer.ubound - consumer.lbound + 1)
           to == NextLbound(consumer.lbound, consumer.ubound, n)
       IN  IF ~can_continue
           THEN /\ consumer' = [consumer EXCEPT !.state = "returned"]
                /\ last' = [NoOp EXCEPT !.op = "consumer_break"]
                /\ UNCHANGED <<hive_blocks, blocks_to_flush, ops_stats,
                               head_block_date, accounts, can_continue>>
           ELSE \E fail \in BatchFails(n, TRUE) :
                /\ CallProcessMulti("massive", consumer.lbound,
                                    consumer.lbound + n - 1,
                                    UpstreamBlocks(consumer.lbound,
                                                   consumer.lbound + n - 1),
                                    NoVops, TRUE, fail)
                /\ consumer' =
                     IF last'.raised THEN [consumer EXCEPT !.state = "raised"]
                     ELSE [consumer EXCEPT !.lbound = to, !.num = @ + 1,
                                           !.state = IF to <= consumer.ubound
                                                     THEN "running" ELSE "returned"]
                \* set_exception_thrown()
                /\ can_continue' = IF last'.raised THEN FALSE ELSE can_continue
    /\ UNCHANGED <<ctx, up_chain, up_lib, produced, pc, conf, bounds,
                   were_mocks, producer, starts>>

\* _blocks_data_provider (sync.py:265-276): the provider's fetch threads
\* return when the latch is set, put the blocks of the range in the queue and
\* return, or raise, before or after the blocks are in the queue
ProducerFetch ==
    /\ pc = "massive"
    /\ producer.state = "running"
    /\ IF ~can_continue
       THEN producer' = [producer EXCEPT !.state = "returned"]
       ELSE \E outcome \in {"returned", "raised"}, fetched \in {producer.fetched, consumer.ubound} :
               /\ outcome = "returned" => fetched = consumer.ubound
               /\ producer' = [state |-> outcome, fetched |-> fetched]
    /\ UNCHANGED <<hive_blocks, ctx, up_chain, up_lib, produced, blocks_to_flush,
                   ops_stats, head_block_date, accounts, pc, conf, bounds, were_mocks,
                   can_continue, consumer, starts, last>>

\* variant: the main thread leaves the massive run when the producer has
\* settled, with the consumer thread still at work
MassiveEndUnawaited ==
    /\ pc = "massive"
    /\ producer.state \in {"returned", "raised"}
    /\ IF producer.state = "raised"
       THEN /\ pc' = "exit"
            /\ ctx' = ctx
            /\ last' = [NoOp EXCEPT !.op = "massive_end", !.raised = TRUE, !.err = "producer"]
       ELSE /\ pc' = "run"
            /\ ctx' = context_attach(ctx, hive_blocks)
            /\ last' = [NoOp EXCEPT !.op = "massive_end"]
    /\ producer' = [state |-> "idle", fetched |-> 0]
    /\ UNCHANGED <<hive_blocks, up_chain, up_lib, produced, blocks_to_flush,
                   ops_stats, head_block_date, accounts, conf, bounds, were_mocks,
                   can_continue, consumer, starts>>

\* variant: only the consumer's future is awaited
MassiveEndConsumerOnly ==
    /\ pc = "massive"
    /\ consumer.state \in {"returned", "raised"}
    /\ IF consumer.state = "raised" \/ producer.state = "raised"
       THEN /\ pc' = "exit"
            /\ ctx' = ctx
            /\ last' = [NoOp EXCEPT !.op = "massive_end", !.raised = TRUE,
                                    !.err = IF consumer.state = "raised"
                                            THEN "consumer" ELSE "producer"]
       ELSE /\ pc' = "run"
            /\ ctx' = context_attach(ctx, hive_blocks)
            /\ last' = [NoOp EXCEPT !.op = "massive_end"]
    /\ consumer' = [consumer EXCEPT !.state = "idle"]
    /\ producer' = [state |-> "idle", fetched |-> 0]
    /\ UNCHANGED <<hive_blocks, up_chain, up_lib, produced, blocks_to_flush,
                   ops_stats, head_block_date, accounts, conf, bounds, were_mocks,
                   can_continue, starts>>

\* _process_blocks_from_provider after both futures settled (sync.py:381-388:
\* the consumer's exception comes first), then run() lines 156-159
MassiveEnd ==
    /\ pc = "massive"
    /\ consumer.state \in {"returned", "raised"}
    /\ producer.state \in {"returned", "raised"}
    /\ IF consumer.state = "raised" \/ producer.state = "raised"
       THEN /\ pc' = "exit"
            /\ ctx' = ctx
            /\ last' = [NoOp EXCEPT !.op = "massive_end", !.raised = TRUE,
                                    !.err = IF consumer.state = "raised"
                                            THEN "consumer" ELSE "producer"]
       ELSE /\ pc' = "run"
            /\ ctx' = context_attach(ctx, hive_blocks)
            /\ last' = [NoOp EXCEPT !.op = "massive_end"]
    /\ consumer' = [consumer EXCEPT !.state = "idle"]
    /\ producer' = [state |-> "idle", fetched |-> 0]
    /\ UNCHANGED <<hive_blocks, up_chain, up_lib, produced, blocks_to_flush,
                   ops_stats, head_block_date, accounts, conf, bounds, were_mocks,
                   can_continue, starts>>

\* variant: __exit__ detaches the context and leaves it so
ExitDetached ==
    /\ pc = "exit"
    /\ ctx' = IF ~were_mocks THEN context_detach(ctx) ELSE ctx
    /\ pc' = "down"
    /\ last' = [NoOp EXCEPT !.op = "exit", !.attached = ctx.attached]
    /\ UNCHANGED <<hive_blocks, up_chain, up_lib, produced, blocks_to_flush,
                   ops_stats, head_block_date, accounts, conf, bounds, were_mocks,
                   can_continue, consumer, producer, starts>>

\* SyncHiveDb.__exit__ (sync.py:91-106), then the process is gone
Exit ==
    /\ pc = "exit"
    /\ ctx' = IF ~were_mocks THEN context_attach(context_detach(ctx), hive_blocks)
              ELSE ctx
    /\ pc' = "down"
    /\ last' = [NoOp EXCEPT !.op = "exit", !.attached = ctx.attached]
    /\ UNCHANGED <<hive_blocks, up_chain, up_lib, produced, blocks_to_flush,
                   ops_stats, head_block_date, accounts, conf, bounds, were_mocks,
                   can_continue, consumer, producer, starts>>

\* a signal latches can_continue_thread() to False
Interrupt ==
    /\ pc \in {"run", "massive"}
    /\ can_continue
    /\ can_continue' = FALSE
    /\ UNCHANGED <<hive_blocks, ctx, up_chain, up_lib, produced, blocks_to_flush,
                   ops_stats, head_block_date, accounts, pc, conf, bounds, were_mocks,
                   consumer, producer, starts, last>>

(***************************************************************************)
(* The upstream chain's own steps.                                         *)
(***************************************************************************)
ProduceSteps == {1, MASSIVE_THRESHOLD + 10}

\* upstream produces k blocks on its current branch
UpstreamProduce ==
    /\ pc \in {"down", "run"}
    /\ produced < MaxProduce
    /\ \E k \in ProduceSteps :
          /\ up_head + k <= MaxUpstreamHead
          /\ up_chain' = up_chain \o [i \in 1..k |-> BranchAt(up_head + 1)]
    /\ produced' = produced + 1
    /\ last' = [NoOp EXCEPT !.op = "upstream"]
    /\ UNCHANGED <<hive_blocks, ctx, up_lib, blocks_to_flush, ops_stats,
                   head_block_date, accounts, pc, conf, bounds, were_mocks,
                   can_continue, consumer, producer, starts>>

ReorgDepths == {1, 2}

\* upstream replaces its d highest blocks, all still reversible, by blocks of
\* a new branch; forks are looked for on startup only, so the chain is taken
\* to reorganise while the indexer is down
UpstreamReorg ==
    /\ pc = "down"
    /\ up_head >= 1
    /\ BranchAt(up_head) < MaxBranch
    /\ \E d \in ReorgDepths :
          /\ up_head - d >= up_lib
          /\ up_chain' = [n \in 1..up_head |->
                            IF n > up_head - d THEN BranchAt(up_head) + 1 ELSE up_chain[n]]
    /\ last' = [NoOp EXCEPT !.op = "upstream"]
    /\ UNCHANGED <<hive_blocks, ctx, up_lib, produced, blocks_to_flush, ops_stats,
                   head_block_date, accounts, pc, conf, bounds, were_mocks,
                   can_continue, consumer, producer, starts>>

\* the upstream head becomes irreversible
UpstreamIrreversible ==
    /\ pc = "down"
    /\ up_lib < up_head
    /\ up_lib' = up_head
    /\ last' = [NoOp EXCEPT !.op = "upstream"]
    /\ UNCHANGED <<hive_blocks, ctx, up_chain, produced, blocks_to_flush,
                   ops_stats, head_block_date, accounts, pc, conf, bounds, were_mocks,
                   can_continue, consumer, producer, starts>>

\* a fresh installation: empty store, a new (attached) context, no upstream
\* block yet
InitFresh ==
    /\ hive_blocks = <<>>
    /\ ctx = [attached |-> TRUE, block |-> 0, violation |-> FALSE]
    /\ up_chain = <<>>
    /\ up_lib = 0
    /\ produced = 0
    /\ starts = 0

\* the header Blocks._push stages for a block
HeaderOf(block) == _push(<<>>, block)[1]

ForkedHeights == {2, FORK_WINDOW, FORK_WINDOW + 1, FORK_WINDOW + 2}

ForkedDepths == {0, 1, 2, FORK_WINDOW - 1, FORK_WINDOW}

\* an installation that went down cleanly at head h, after which upstream
\* (e blocks ahead) replaced its d highest blocks by another branch; the
\* last irreversible block is the fork point or the block above it
InitForked ==
    \E h \in ForkedHeights, e \in {0, 1, 2},
       d \in ForkedDepths, l \in {0, 1} :
        /\ d <= h + e
        /\ h + e - d + l <= h + e
        /\ hive_blocks = [n \in 1..h |->
                            HeaderOf([block_id     |-> BlockId(n, 0),
                                      previous     |-> BlockId(n - 1, 0),
                                      timestamp    |-> Timestamp(n, 0),
                                      transactions |-> <<>>])]
        /\ ctx = [attached |-> TRUE, block |-> h, violation |-> FALSE]
        /\ up_chain = [n \in 1..(h + e) |-> IF n > h + e - d THEN MaxBranch ELSE 0]
        /\ up_lib = h + e - d + l
        /\ produced = MaxProduce
        /\ starts = MaxStarts - 1

InitProcess ==
    /\ blocks_to_flush = <<>>
    /\ ops_stats = EmptyDict
    /\ head_block_date = 0
    /\ accounts = {}
    /\ pc = "down"
    /\ conf = [test_max_block |-> 0, test_last_block_for_massive |-> 0]
    /\ bounds = [lbound |-> 0, ubound |-> 0]
    /\ were_mocks = FALSE
    /\ can_continue = TRUE
    /\ consumer = [state |-> "idle", lbound |-> 0, ubound |-> 0, num |-> 0]
    /\ producer = [state |-> "idle", fetched |-> 0]
    /\ last = NoOp

Init == InitFresh /\ InitProcess

Next ==
    \/ Start(Confs)
    \/ VerifyHead
    \/ RunInterrupted
    \/ RunReachedCap
    \/ RunIdle
    \/ SingleIteration
    \/ MassiveBegin
    \/ ConsumerBatch
    \/ ProducerFetch
    \/ MassiveEnd
    \/ Exit
    \/ Interrupt
    \/ UpstreamProduce
    \/ UpstreamReorg
    \/ UpstreamIrreversible

\* the life of an installation, from its first start
Spec == Init /\ [][Next]_vars

InitFork == InitForked /\ InitProcess

NextFork ==
    \/ Start(PlainConfs)
    \/ VerifyHead
    \/ RunInterrupted
    \/ RunIdle
    \/ SingleIteration
    \/ Exit
    \/ Interrupt
    \/ UpstreamIrreversible

\* a start in production configuration after upstream forked
SpecFork == InitFork /\ [][NextFork]_vars

(***************************************************************************)
(* Starts on ranges around the massive threshold.                          *)
(***************************************************************************)
\* the configurations: caps that cut the range at the threshold and one
\* above it, and a low limit of massive sync
ModeConfs == [test_max_block : {0, MASSIVE_THRESHOLD + 1, MASSIVE_THRESHOLD + 2},
              test_last_block_for_massive : {0, 1}]

ModeHeads == {0, 1}

ModeAheads == {0, MASSIVE_THRESHOLD + 1, MASSIVE_THRESHOLD + 2}

\* an installation that went down cleanly at head h, with upstream e
\* irreversible blocks ahead on the same branch
SyncedAt(h, e) ==
    /\ hive_blocks = [n \in 1..h |->
                        HeaderOf([block_id     |-> BlockId(n, 0),
                                  previous     |-> BlockId(n - 1, 0),
                                  timestamp    |-> Timestamp(n, 0),
                                  transactions |-> <<>>])]
    /\ ctx = [attached |-> TRUE, block |-> h, violation |-> FALSE]
    /\ up_chain = [n \in 1..(h + e) |-> 0]
    /\ up_lib = h + e
    /\ produced = MaxProduce
    /\ starts = MaxStarts - 1

InitSynced == \E h \in ModeHeads, e \in ModeAheads : SyncedAt(h, e)

InitMode == InitSynced /\ InitProcess

NextMode ==
    \/ Start(ModeConfs)
    \/ VerifyHead
    \/ RunInterrupted
    \/ RunReachedCap
    \/ RunIdle
    \/ SingleIteration
    \/ MassiveBegin
    \/ ConsumerBatch
    \/ ProducerFetch
    \/ MassiveEnd
    \/ Exit
    \/ Interrupt

\* one run of the main loop on a range around the massive threshold
SpecMode == InitMode /\ [][NextMode]_vars

(***************************************************************************)
(* Runs of the main loop under a test cap.                                 *)
(***************************************************************************)
\* the configurations of ModeConfs, and the caps together with a limit of
\* massive sync that lies above them
CapConfs == ModeConfs \cup [test_max_block : {MASSIVE_THRESHOLD + 1, MASSIVE_THRESHOLD + 2},
                            test_last_block_for_massive : {MASSIVE_THRESHOLD + 3}]

\* upstream is level, or ahead up to the higher cap or beyond it
CapAheads == {0, MASSIVE_THRESHOLD + 2, MASSIVE_THRESHOLD + 3}

InitCap == (\E h \in ModeHeads, e \in CapAheads : SyncedAt(h, e)) /\ InitProcess

NextCap ==
    \/ Start(CapConfs)
    \/ VerifyHead
    \/ RunInterrupted
    \/ RunReachedCap
    \/ RunIdle
    \/ SingleIteration
    \/ MassiveBegin
    \/ ConsumerBatch
    \/ ProducerFetch
    \/ MassiveEnd
    \/ Exit
    \/ Interrupt

\* one run of the main loop from a head below the cap
SpecCap == InitCap /\ [][NextCap]_vars

(***************************************************************************)
(* The threads of the main loop: the single iteration in the two steps of  *)
(* the main thread, around the provider's futures.                         *)
(***************************************************************************)
\* run(), lines 160-166: the main thread calls _blocks_data_provider itself,
\* which starts the provider's fetch threads and waits for each future; an
\* exception of one of them is raised on the main thread (sync.py:265-276)
SingleFetch ==
    /\ pc = "run"
    /\ can_continue
    /\ LET plan == Plan
       IN  /\ plan.kind = "single"
           /\ bounds' = [lbound |-> plan.lbound, ubound |-> plan.ubound]
           /\ were_mocks' = (were_mocks \/ plan.mocks)
           /\ \E outcome \in {"returned", "raised"} :
                 /\ producer' = [state |-> outcome,
                                 fetched |-> IF outcome = "returned" THEN plan.lbound
                                             ELSE plan.lbound - 1]
                 /\ pc' = IF outcome = "raised" THEN "exit" ELSE "single"
                 /\ last' = [NoOp EXCEPT !.op = "single_fetch",
                                         !.raised = (outcome = "raised"),
                                         !.err = IF outcome = "raised" THEN "producer" ELSE "",
                                         !.head_before = head_num(hive_blocks)]
    /\ UNCHANGED <<hive_blocks, ctx, up_chain, up_lib, produced, blocks_to_flush,
                   ops_stats, head_block_date, accounts, conf, can_continue,
                   consumer, starts>>

\* run(), lines 167-169: get(1), process_multi and the periodic actions, on
\* the main thread
SingleProcess ==
    /\ pc = "single"
    /\ \E fail \in BatchFails(1, FALSE) :
          /\ CallProcessMulti("single", bounds.lbound, bounds.lbound,
                              UpstreamBlocks(bounds.lbound, bounds.lbound),
                              NoVops, FALSE, fail)
          /\ pc' = IF last'.raised THEN "exit" ELSE "run"
    /\ producer' = [state |-> "idle", fetched |-> 0]
    /\ UNCHANGED <<ctx, up_chain, up_lib, produced, conf, bounds, were_mocks,
                   can_continue, consumer, starts>>

NextThreads ==
    \/ Start(ModeConfs)
    \/ VerifyHead
    \/ RunInterrupted
    \/ RunReachedCap
    \/ RunIdle
    \/ SingleFetch
    \/ SingleProcess
    \/ MassiveBegin
    \/ ConsumerBatch
    \/ ProducerFetch
    \/ MassiveEnd
    \/ Exit
    \/ Interrupt

\* one run of the main loop, thread by thread
SpecThreads == InitMode /\ [][NextThreads]_vars

(***************************************************************************)
(* Runs of the main loop under fair scheduling.                            *)
(***************************************************************************)
\* a cap two blocks above an empty store, or none
FairConfs == [test_max_block : {0, 2}, test_last_block_for_massive : {0}]

\* upstream is level, one block ahead, or far enough ahead for a massive run
FairAheads == {0, 1, MASSIVE_THRESHOLD + 2}

InitFair == (\E h \in ModeHeads, e \in FairAheads : SyncedAt(h, e)) /\ InitProcess

NextFair ==
    \/ Start(FairConfs)
    \/ VerifyHead
    \/ RunInterrupted
    \/ RunReachedCap
    \/ RunIdle
    \/ SingleIteration
    \/ MassiveBegin
    \/ ConsumerBatch
    \/ ProducerFetch
    \/ MassiveEnd
    \/ Exit
    \/ Interrupt

\* one run of the main loop under fair scheduling of the three threads: a
\* thread whose next step is to return, to leave the massive run or to break
\* out of its loop takes that step
SpecFair ==
    /\ InitFair /\ [][NextFair]_vars
    /\ WF_vars(RunInterrupted)
    /\ WF_vars(RunReachedCap)
    /\ WF_vars(MassiveEnd)
    /\ WF_vars(~can_continue /\ ConsumerBatch)
    /\ WF_vars(ProducerFetch)

(***************************************************************************)
(* Live sync across the block numbers of the periodic actions.             *)
(***************************************************************************)
\* heads one and two blocks below a multiple of 200 and of 1200
PeriodicHeads == {198, 199, 1198, 1199}

\* upstream is level, or one or two blocks ahead
PeriodicAheads == {0, 1, 2}

\* no cap, or a cap at the first multiple of 200
PeriodicConfs == [test_max_block : {0, 200}, test_last_block_for_massive : {0}]

InitPeriodic == (\E h \in PeriodicHeads, e \in PeriodicAheads : SyncedAt(h, e)) /\ InitProcess

NextPeriodic ==
    \/ Start(PeriodicConfs)
    \/ VerifyHead
    \/ RunInterrupted
    \/ RunReachedCap
    \/ RunIdle
    \/ SingleIteration
    \/ Exit
    \/ Interrupt

\* one run of the main loop in single mode up to a periodic block number
SpecPeriodic == InitPeriodic /\ [][NextPeriodic]_vars

(***************************************************************************)
(* Blocks._pop on its own.                                                 *)
(***************************************************************************)
MaxPop == 3

\* the lists _pop is called with on a store of head h: the k highest blocks
\* from the head down (what verify_head collects), and lists that are not
\* such: the two highest in ascending order, the block below the head
\* alone, the head and the block two below it, the head twice
PopLists(rows, h) ==
    {[i \in 1..k |-> _get(rows, h - i + 1)] : k \in 0..Min(MaxPop, h)}
    \cup {<<_get(rows, h - 1), _get(rows, h)>>, <<_get(rows, h - 1)>>,
          <<_get(rows, h), _get(rows, h)>>}
    \cup (IF h >= 3 THEN {<<_get(rows, h), _get(rows, h - 2)>>} ELSE {})

\* one call of Blocks._pop
PopBlocks ==
    /\ last.op = "none"
    /\ \E blocks \in PopLists(hive_blocks, head_num(hive_blocks)) :
          /\ hive_blocks' = _pop(hive_blocks, blocks).rows
          /\ last' = [NoOp EXCEPT !.op = "_pop",
                                  !.err = _pop(hive_blocks, blocks).err,
                                  !.raised = (_pop(hive_blocks, blocks).err # ""),
                                  !.head_before = head_num(hive_blocks),
                                  !.rows_before = hive_blocks,
                                  !.to_pop = blocks]
    /\ UNCHANGED <<ctx, up_chain, up_lib, produced, blocks_to_flush, ops_stats,
                   head_block_date, accounts, pc, conf, bounds, were_mocks,
                   can_continue, consumer, producer, starts>>

SpecPop == InitFork /\ [][PopBlocks]_vars

(***************************************************************************)
(* Massive runs of more than one batch.                                    *)
(***************************************************************************)
\* a cap at the end of the second full batch, or none
BatchConfs == [test_max_block : {0, 2 * LIMIT_FOR_PROCESSED_BLOCKS}, test_last_block_for_massive : {0}]

\* upstream is one full batch ahead, one block more, or two batches and a block
BatchAheads == {LIMIT_FOR_PROCESSED_BLOCKS, LIMIT_FOR_PROCESSED_BLOCKS + 1, 2 * LIMIT_FOR_PROCESSED_BLOCKS + 1}

InitBatches == (\E e \in BatchAheads : SyncedAt(0, e)) /\ InitProcess

NextBatches ==
    \/ Start(BatchConfs)
    \/ VerifyHead
    \/ RunInterrupted
    \/ RunReachedCap
    \/ RunIdle
    \/ MassiveBegin
    \/ ConsumerBatch
    \/ ProducerFetch
    \/ MassiveEnd
    \/ Exit
    \/ Interrupt

SpecBatches == InitBatches /\ [][NextBatches]_vars

\* the consumer's next step can be taken: it is running and its get()
\* returns (ENABLED <<ConsumerBatch>>_vars)
ConsumerReady ==
    /\ pc = "massive"
    /\ consumer.state = "running"
    /\ GetReturns(consumer.lbound,
                  Min(LIMIT_FOR_PROCESSED_BLOCKS, consumer.ubound - consumer.lbound + 1))

\* the same runs under fair scheduling of the three threads: the producer
\* takes its step, the main thread leaves the massive run once both futures
\* have settled, and the consumer takes its step when it can (weak fairness
\* of ConsumerBatch, its enabling condition written out as ConsumerReady)
SpecBatchesFair ==
    /\ InitBatches /\ [][NextBatches]_vars
    /\ WF_vars(ProducerFetch)
    /\ WF_vars(MassiveEnd)
    /\ ([]<>(~ConsumerReady) \/ []<><<ConsumerBatch>>_vars)

(***************************************************************************)
(* Blocks that carry operations, processed one per call.                   *)
(***************************************************************************)
\* highest block processed
MaxBlocks == 2

Tx(operations) == [operations |-> operations]

\* the transactions a block may carry
BlockTransactions ==
    {<<>>,
     <<Tx(<<OpComment("alice", "p"), OpCreate("alice")>>)>>,
     <<Tx(<<OpVote("bob", "alice", "p")>>),
       Tx(<<OpPow2("bob"), OpTransfer("alice", "bob")>>)>>,
     <<Tx(<<OpCustomJson("alice"), OpPow("alice")>>)>>,
     <<Tx(<<OpCustomJson("bob"), OpTransfer("bob", "alice")>>),
       Tx(<<OpCustomJson("alice"), OpComment("bob", "q")>>)>>,
     <<Tx(<<OpUpdate("bob"), OpCreateDeleg("bob")>>)>>,
     <<Tx(<<OpDelete("alice", "p"), OpOptions("carol", "p")>>),
       Tx(<<OpCreateClaimed("carol"), OpUpdate2("carol"), OpOther("alice")>>)>>}

VopAuthorReward(a, p) ==
    [type |-> "author_reward_operation",
     value |-> [author |-> a, permlink |-> p, hbd_payout |-> 1, hive_payout |-> 0,
                vesting_payout |-> 2]]

VopPayoutUpdate(a, p) ==
    [type |-> "comment_payout_update_operation", value |-> [author |-> a, permlink |-> p]]

VopEffectiveVote(a, p) ==
    [type |-> "effective_comment_vote_operation",
     value |-> [author |-> a, permlink |-> p, pending_payout |-> 3]]

VopProducerReward(a) == [type |-> "producer_reward_operation", value |-> [producer |-> a]]

\* the virtual operations of block num: what hived returns for it, and what
\* the caller's map holds for it in initial sync
BlockVops(num) ==
    {NoVops,
     [raw |-> Put(EmptyDict, num, <<VopAuthorReward("alice", "p"), VopProducerReward("bob"),
                                    VopPayoutUpdate("alice", "p")>>),
      preloaded |-> EmptyDict],
     [raw |-> Put(EmptyDict, num, <<VopEffectiveVote("alice", "p")>>),
      preloaded |-> EmptyDict],
     [raw |-> EmptyDict,
      preloaded |-> Put(EmptyDict, num,
                        [raised |-> FALSE,
                         vote_ops |-> Put(EmptyDict, VopKey("alice", "p"),
                                          [pending_payout |-> 3]),
                         comment_payout_ops |->
                            Put(EmptyDict, VopKey("alice", "p"),
                                <<[op_type |-> "comment_payout_update_operation",
                                   val |-> [is_paidout |-> TRUE]]>>)])]}

\* the calls of a one-block batch that are made to fail
BlockFails ==
    {NoFail}
    \cup {[blk |-> 1, call |-> c, idx |-> 0] :
            c \in {"Accounts.register", "CustomOp.process_ops",
                   "Votes.effective_comment_vote_op", "Posts.comment_payout_op"}}
    \cup {[blk |-> 1, call |-> "dispatch", idx |-> i] : i \in {1, 2}}
    \cup {[blk |-> 0, call |-> "Follow.flush", idx |-> 0]}

\* the block of height num that carries transactions txs
BlockWith(num, txs) == [UpstreamBlock(num) EXCEPT !.transactions = txs]

\* one process_multi call on the next block, which carries operations
ProcessBlock ==
    /\ pc = "run"
    /\ head_num(hive_blocks) < MaxBlocks
    /\ \E txs \in BlockTransactions, vops \in BlockVops(head_num(hive_blocks) + 1),
          is_initial_sync \in BOOLEAN, fail \in BlockFails :
          /\ CallProcessMulti("block", head_num(hive_blocks) + 1,
                              head_num(hive_blocks) + 1,
                              <<BlockWith(head_num(hive_blocks) + 1, txs)>>,
                              vops, is_initial_sync, fail)
          /\ pc' = IF last'.raised THEN "exit" ELSE "run"
    /\ UNCHANGED <<ctx, up_chain, up_lib, produced, conf, bounds, were_mocks,
                   can_continue, consumer, producer, starts>>

\* a running process on an empty store
InitBlock ==
    /\ InitFresh
    /\ blocks_to_flush = <<>>
    /\ ops_stats = EmptyDict
    /\ head_block_date = 0
    /\ accounts = {}
    /\ pc = "run"
    /\ conf = [test_max_block |-> 0, test_last_block_for_massive |-> 0]
    /\ bounds = [lbound |-> 0, ubound |-> 0]
    /\ were_mocks = FALSE
    /\ can_continue = TRUE
    /\ consumer = [state |-> "idle", lbound |-> 0, ubound |-> 0, num |-> 0]
    /\ producer = [state |-> "idle", fetched |-> 0]
    /\ last = NoOp

NextBlock ==
    \/ ProcessBlock
    \/ Exit

\* the processing of blocks that carry operations
SpecBlock == InitBlock /\ [][NextBlock]_vars

(***************************************************************************)
(* The Virtual-Ops Preparer on its own.                                    *)
(***************************************************************************)
MaxVops == 3

VopCurationReward(a, p) ==
    [type |-> "curation_reward_operation", value |-> [comment_author |-> a, comment_permlink |-> p, reward |-> 4]]

\* the vops a list is drawn from: two posts, every type that has a key but
\* comment_reward_operation, and one type that has none
VopChoices ==
    {VopAuthorReward("alice", "p"), VopPayoutUpdate("alice", "p"), VopCurationReward("alice", "p"),
     VopAuthorReward("bob", "q"), VopPayoutUpdate("bob", "q"), VopEffectiveVote("alice", "p"),
     VopProducerReward("bob")}

VopLists == UNION {[1..n -> VopChoices] : n \in 0..MaxVops}

\* one call of Blocks.prepare_vops
PrepareVops ==
    /\ last.op = "none"
    /\ \E vopsList \in VopLists :
          last' = [NoOp EXCEPT !.op = "prepare_vops", !.vops = vopsList,
                              !.got = prepare_vops(vopsList)]
    /\ UNCHANGED <<hive_blocks, ctx, up_chain, up_lib, produced, blocks_to_flush,
                   ops_stats, head_block_date, accounts, pc, conf, bounds, were_mocks,
                   can_continue, consumer, producer, starts>>

SpecVops == InitBlock /\ [][PrepareVops]_vars

(***************************************************************************)
(* Properties.                                                             *)
(***************************************************************************)
\* the nums of the rows
Nums(rows) == {rows[i].num : i \in DOMAIN rows}

\* rows[n] is the row of num n, for every n
Aligned(rows) == \A i \in DOMAIN rows : rows[i].num = i

\* the row of num n (a row of num 0 when there is none)
RowAt(rows, n) ==
    IF n \in DOMAIN rows /\ rows[n].num = n THEN rows[n]
    ELSE IF \E i \in DOMAIN rows : rows[i].num = n
    THEN rows[CHOOSE i \in DOMAIN rows : rows[i].num = n]
    ELSE [num |-> 0, hash |-> 0, prev |-> 0, txs |-> 0, ops |-> 0, date |-> 0]

\* C1 (atomic batch): when process_multi raises, in a block of the batch or
\* in a flusher before COMMIT, head_num() is what it was before the call and
\* hive_blocks holds no header of the batch.
C1_AtomicBatch ==
    (last.op = "process_multi" /\ last.raised) =>
        /\ head_num(hive_blocks) = last.head_before
        /\ Nums(hive_blocks) \cap (last.lo .. last.hi) = {}

\* a batch whose headers were inserted in the open transaction, and whose
\* follow flush then raised
C1_Witness ==
    /\ last.op = "process_multi"
    /\ last.raised
    /\ last.hi > last.lo
    /\ \E i \in DOMAIN last.log : last.log[i].call = "_flush_blocks"

C3_ContiguousNums ==
    LET nums == Nums(hive_blocks)
        head == head_num(hive_blocks)
    IN  /\ Cardinality(nums) = Len(hive_blocks)
        /\ \A n \in nums : n = head \/ n + 1 \in nums

\* the store after a failed batch, a fork recovery that popped blocks and a
\* massive run on top of it
C3_Witness ==
    /\ last.op = "process_multi"
    /\ last.mode = "massive"
    /\ ~last.raised
    /\ last.head_before > 0
    /\ \E i \in DOMAIN hive_blocks : hive_blocks[i].hash % SuffixSpace # 0

\* C4 (monotonic head): no step other than fork recovery lowers head_num(),
\* and one fork recovery lowers it by at most 24.
C4_MonotonicHead ==
    [][IF pc = "startup"
       THEN head_num(hive_blocks) - head_num(hive_blocks') <= 24
       ELSE head_num(hive_blocks') >= head_num(hive_blocks)]_vars

\* a fork recovery that popped 24 blocks
C4_Witness ==
    /\ last.op = "verify_head"
    /\ ~last.raised
    /\ last.head_before - head_num(hive_blocks) = 24

\* the calls that are passed the head date
DateTaggedCalls ==
    {"Accounts.register", "Posts.comment_op", "Payments.op_transfer",
     "CustomOp.process_ops", "Votes.effective_comment_vote_op",
     "Posts.comment_payout_op"}

\* C5 (head-date lag): every date passed to a sub-processor for a block B is
\* the timestamp of the block persisted at num B-1; only the first block
\* ingested into an empty store is passed its own timestamp.
C5_HeadDateLag ==
    (last.op = "process_multi" /\ ~last.raised) =>
        \A i \in DOMAIN last.log :
            last.log[i].call \in DateTaggedCalls =>
                last.log[i].date =
                    IF last.head_before = 0 /\ last.log[i].num = last.lo
                    THEN RowAt(hive_blocks, last.log[i].num).date
                    ELSE RowAt(hive_blocks, last.log[i].num - 1).date

\* the calls the operations and virtual operations of a block are
\* dispatched to
DispatchedCalls ==
    {"Accounts.dirty", "Posts.comment_op", "Posts.delete_op",
     "Posts.comment_options_op", "Payments.op_transfer", "CustomOp.process_ops",
     "Votes.effective_comment_vote_op", "Posts.comment_payout_op"}

\* the account name an operation introduces, if it does
IntroducedBy(operation) ==
    CASE operation.type = "pow_operation" -> {operation.value.worker_account}
      [] operation.type = "pow2_operation"
            -> {operation.value.work.value.input.worker_account}
      [] operation.type \in {"account_create_operation",
                             "account_create_with_delegation_operation",
                             "create_claimed_account_operation"}
            -> {operation.value.new_account_name}
      [] OTHER -> {}

\* the account names introduced anywhere in the transactions txs
Introduced(txs) ==
    UNION {UNION {IntroducedBy(txs[t].operations[i]) : i \in DOMAIN txs[t].operations} :
             t \in DOMAIN txs}

\* C6 (pass ordering): whenever an operation of a block is dispatched to a
\* sub-processor, every account name introduced by a creating operation
\* anywhere in that block is already registered with Accounts.
C6_PassOrdering ==
    last.op = "process_multi" =>
        \A i \in DOMAIN last.log :
            (last.log[i].call \in DispatchedCalls /\ last.log[i].num \in DOMAIN last.txs)
                => Introduced(last.txs[last.log[i].num]) \subseteq last.log[i].known

\* a comment dispatched ahead of the operation that creates its author, who
\* was not registered before the block
C6_Witness ==
    /\ last.op = "process_multi"
    /\ ~last.raised
    /\ \E i \in DOMAIN last.log :
          /\ last.log[i].call = "Posts.comment_op"
          /\ last.log[i].arg.author \in Introduced(last.txs[last.log[i].num])
          /\ last.log[i].arg.author \notin last.log[1].known

\* the highest element of a set of heights (0: none)
Highest(S) == IF S = {} THEN 0 ELSE CHOOSE m \in S : \A x \in S : x <= m

\* the heights at which the local hash is the upstream hash
Agreeing(rows) == {n \in Nums(rows) : RowAt(rows, n).hash = steem_hash(n)}

\* upstream has a block of height n, and the local block n has another hash
Disagrees(rows, n) ==
    /\ steem_hash(n) # 0
    /\ RowAt(rows, n).num = n
    /\ RowAt(rows, n).hash # steem_hash(n)

\* C7 (fork recovery result): when verify_head returns normally, with c the
\* highest height at which local and upstream hash agree, the rows left are
\* exactly the rows of num <= c, unchanged, and head_num() = c; with a local
\* head of 0 or a matching head nothing is deleted.
C7_ForkRecoveryResult ==
    (last.op = "verify_head" /\ ~last.raised) =>
        IF last.head_before = 0
           \/ RowAt(last.rows_before, last.head_before).hash = steem_hash(last.head_before)
        THEN hive_blocks = last.rows_before
        ELSE /\ hive_blocks = SelectSeq(last.rows_before,
                                LAMBDA r : r.num <= Highest(Agreeing(last.rows_before)))
             /\ head_num(hive_blocks) = Highest(Agreeing(last.rows_before))

\* a recovery that popped several blocks
C7_Witness ==
    /\ last.op = "verify_head"
    /\ ~last.raised
    /\ Len(last.rows_before) - Len(hive_blocks) >= 2
    /\ Len(hive_blocks) >= 1

\* C8 (too-deep fork): when the 25 highest local blocks all disagree with
\* upstream, verify_head aborts with "fork too deep" and deletes nothing; when
\* exactly the 24 highest disagree, it does not abort with "fork too deep".
C8_TooDeepFork ==
    (last.op = "verify_head" /\ last.head_before >= 25) =>
        /\ (\A n \in (last.head_before - 24) .. last.head_before :
                Disagrees(last.rows_before, n))
              => (last.err = "fork too deep" /\ hive_blocks = last.rows_before)
        /\ ((\A n \in (last.head_before - 23) .. last.head_before :
                Disagrees(last.rows_before, n))
            /\ RowAt(last.rows_before, last.head_before - 24).hash
                  = steem_hash(last.head_before - 24))
              => last.err # "fork too deep"

\* a start that found the 25 highest local blocks forked away
C8_Witness ==
    /\ last.op = "verify_head"
    /\ last.err = "fork too deep"
    /\ last.head_before > 25

\* C9 (non-irreversible fork): when the head disagrees and the agreement
\* height, found within the window, is not below the upstream last
\* irreversible height, verify_head aborts with "not proceeding until head is
\* irreversible" and deletes nothing; rows are deleted only when the
\* agreement height is below the last irreversible height.
C9_NonIrreversibleFork ==
    last.op = "verify_head" =>
        /\ (/\ Disagrees(last.rows_before, last.head_before)
            /\ Highest(Agreeing(last.rows_before)) >= 1
            /\ last.head_before - Highest(Agreeing(last.rows_before)) < 25
            /\ ~(Highest(Agreeing(last.rows_before)) < up_lib))
              => (/\ last.err = "not proceeding until head is irreversible"
                  /\ hive_blocks = last.rows_before)
        /\ hive_blocks # last.rows_before
              => Highest(Agreeing(last.rows_before)) < up_lib

\* a start refused because the fork point is not yet irreversible
C9_Witness ==
    /\ last.op = "verify_head"
    /\ last.err = "not proceeding until head is irreversible"

\* C10 (context detach/attach invariant): the context is detached while a
\* massive run is in progress, and attached whenever a block is processed in
\* single mode.
C10_ContextInvariant ==
    /\ pc = "massive" => ~ctx.attached
    /\ (last.op = "process_multi" /\ last.mode = "massive") => ~last.attached
    /\ (last.op = "process_multi" /\ last.mode = "single") => last.attached

\* massive mode is allowed in the iteration of the last step (sync.py:121-127,
\* on the range app_next_block returned)
MassiveAllowed ==
    ~(/\ conf.test_last_block_for_massive # 0
      /\ last.attached /\ up_head > last.head_before
      /\ last.head_before + 1 > conf.test_last_block_for_massive)

\* C11 (mode decision): an iteration enters massive mode only on a non-empty
\* range with ubound - lbound > 100 while massive is allowed, and single mode
\* only on a non-empty range otherwise; an iteration that enters neither has
\* no range.
C11_ModeDecision ==
    /\ last.op = "massive_begin" =>
          /\ bounds.lbound # 0 /\ bounds.ubound # 0
          /\ bounds.ubound - bounds.lbound > 100
          /\ MassiveAllowed
    /\ (last.op = "process_multi" /\ last.mode = "single") =>
          /\ bounds.lbound # 0 /\ bounds.ubound # 0
          /\ ~(bounds.ubound - bounds.lbound > 100 /\ MassiveAllowed)
    /\ last.op = "continue" => ~(bounds.lbound # 0 /\ bounds.ubound # 0)

\* a range with ubound - lbound = 100 handled in single mode while massive
\* is allowed
C11_Witness ==
    /\ last.op = "process_multi"
    /\ last.mode = "single"
    /\ bounds.ubound - bounds.lbound = 100
    /\ MassiveAllowed

C13_Termination ==
    /\ (pc \in {"run", "massive"} /\ ~can_continue) ~> (pc \notin {"run", "massive"})
    /\ (/\ pc = "run"
        /\ conf.test_max_block # 0
        /\ head_num(hive_blocks) >= conf.test_max_block) ~> (pc # "run")

\* run() returned with the latch set after a massive run was cut short
C13_Witness ==
    /\ pc = "exit"
    /\ ~can_continue
    /\ last.op = "return"
    /\ consumer.num = 0
    /\ consumer.lbound # 0

C15_ShutdownReattach ==
    [][(pc = "exit" /\ pc' = "down" /\ ~were_mocks) =>
         /\ ctx'.attached
         /\ ctx'.block = head_num(hive_blocks')
         /\ ctx'.violation = ctx.violation
         /\ hive_blocks' = hive_blocks]_vars

\* __exit__ ran after a massive run raised and left the context detached
C15_Witness ==
    /\ last.op = "exit"
    /\ ~last.attached
    /\ ~were_mocks
    /\ ~can_continue
    /\ ctx.attached
    /\ ctx.block = head_num(hive_blocks)
    /\ bounds.ubound - bounds.lbound > MASSIVE_THRESHOLD

\* the entries prepare_vops is to hold for key: one per vop of the list
\* that has the key, in the order of the list
KeyEntries(vopsList, key) ==
    LET sel == SelectSeq(vopsList, LAMBDA v : VopKeyOf(v) = key)
    IN  [i \in DOMAIN sel |-> [op_type |-> sel[i].type, val |-> VopValOf(sel[i])]]

\* C16 (vop fold stability): prepare_vops returns maps for its vop list, and
\* for every author/permlink key of the list the comment-payout map holds
\* that key's vops in exactly the order of the list.
C16_VopFoldStability ==
    last.op = "prepare_vops" =>
        /\ ~last.got.raised
        /\ DOMAIN last.got.comment_payout_ops = {VopKeyOf(last.vops[i]) : i \in DOMAIN last.vops} \ {""}
        /\ \A key \in DOMAIN last.got.comment_payout_ops :
              last.got.comment_payout_ops[key] = KeyEntries(last.vops, key)

\* the positions of the operations of type op_type in the transactions txs
\* of a call
OpsOfType(txs, op_type) ==
    {p \in UNION {UNION {{<<n, t, i>> : i \in DOMAIN txs[n][t].operations} : t \in DOMAIN txs[n]} : n \in DOMAIN txs} :
        txs[p[1]][p[2]].operations[p[3]].type = op_type}

\* the types of the operations in txs
TypesIn(txs) ==
    UNION {UNION {{txs[n][t].operations[i].type : i \in DOMAIN txs[n][t].operations} : t \in DOMAIN txs[n]} : n \in DOMAIN txs}

\* the counter of op_type in stats, 0 when there is none
Counter(stats, op_type) == IF op_type \in DOMAIN stats THEN stats[op_type] ELSE 0

\* C17 as stated (crash mid-batch and counters): after a failed
\* process_multi call no row of the batch persists and ops_stats equals its
\* value before the call.
C17_CountersRolledBack ==
    (last.op = "process_multi" /\ last.raised) =>
        /\ Nums(hive_blocks) \cap (last.lo..last.hi) = {}
        /\ ops_stats = last.stats_before

\* C17, amended: after a failed process_multi call no row of the batch
\* persists, while ops_stats is not rolled back: no counter is lower than
\* before the call or higher than that by more than the operations of its
\* type in the batch, and when the failure came after the blocks were
\* processed (in a flusher) every operation of the batch but custom_json
\* is counted.
C17_CrashCounters ==
    (last.op = "process_multi" /\ last.raised) =>
        /\ Nums(hive_blocks) \cap (last.lo..last.hi) = {}
        /\ head_num(hive_blocks) = last.head_before
        /\ DOMAIN last.stats_before \subseteq DOMAIN ops_stats
        /\ \A t \in TypesIn(last.txs) \ {"custom_json_operation"} :
              /\ Counter(ops_stats, t) >= Counter(last.stats_before, t)
              /\ Counter(ops_stats, t) <= Counter(last.stats_before, t) + Cardinality(OpsOfType(last.txs, t))
              /\ (\E i \in DOMAIN last.log : last.log[i].call = "PostDataCache.flush") =>
                    Counter(ops_stats, t) = Counter(last.stats_before, t) + Cardinality(OpsOfType(last.txs, t))

\* the second block's call failed in a flusher after its operations were
\* counted on top of the first block's
C17_Witness ==
    /\ last.op = "process_multi"
    /\ last.raised
    /\ last.stats_before # EmptyDict
    /\ ops_stats # last.stats_before
    /\ \E i \in DOMAIN last.log : last.log[i].call = "PostDataCache.flush"
    /\ Nums(hive_blocks) \cap (last.lo..last.hi) = {}

\* C18 (single-mode step): a single-mode iteration whose process_multi call
\* returns has committed exactly one block, the block of num lbound: the
\* store is the store before with that block's header added, head_num() is
\* lbound and head_date() is that block's timestamp.
C18_SingleStep ==
    [][(/\ pc = "run"
        /\ can_continue
        /\ Plan.kind = "single"
        /\ last'.op = "process_multi"
        /\ ~last'.raised
        /\ can_continue'
        /\ up_chain' = up_chain /\ up_lib' = up_lib /\ produced' = produced) =>
         /\ last'.mode = "single"
         /\ bounds'.lbound = Plan.lbound
         /\ last'.lo = bounds'.lbound /\ last'.hi = bounds'.lbound
         /\ hive_blocks' = Append(hive_blocks, HeaderOf(UpstreamBlock(bounds'.lbound)))
         /\ head_num(hive_blocks') = bounds'.lbound
         /\ head_date(hive_blocks') = UpstreamBlock(bounds'.lbound).timestamp
         /\ last'.log[Len(last'.log)].call = "COMMIT"
         /\ pc' = "run"]_vars

\* from an empty store with upstream block 1 and more: one single-mode
\* iteration has left block 1 alone in the store
C18_Witness ==
    /\ last.op = "process_multi"
    /\ last.mode = "single"
    /\ ~last.raised
    /\ last.head_before = 0
    /\ bounds.lbound = 1
    /\ bounds.ubound > 1
    /\ Len(hive_blocks) = 1
    /\ head_num(hive_blocks) = 1
    /\ head_date(hive_blocks) = hive_blocks[1].date
    /\ pc = "run"

\* C19 (massive run completion): the batches of a massive run are
\* consecutive and of at most LIMIT_FOR_PROCESSED_BLOCKS blocks: each starts
\* at lbound plus the blocks of the batches before it and ends at the limit
\* or at ubound, and a batch that returns leaves head_num() at its last
\* block; a run that ends neither failed nor interrupted has covered
\* lbound..ubound and leaves head_num() == ubound; and a massive run whose
\* producer does not fail terminates.
C19_MassiveCompletion ==
    /\ [][/\ (pc = "massive" /\ consumer.state = "running" /\ last'.op = "process_multi" /\ consumer' # consumer) =>
              /\ last'.lo = consumer.lbound
              /\ last'.lo = bounds.lbound + consumer.num * LIMIT_FOR_PROCESSED_BLOCKS
              /\ last'.lo = head_num(hive_blocks) + 1
              /\ last'.hi = Min(last'.lo + LIMIT_FOR_PROCESSED_BLOCKS - 1, bounds.ubound)
              /\ ~last'.raised =>
                    /\ head_num(hive_blocks') = last'.hi
                    /\ Len(hive_blocks') = Len(hive_blocks) + (last'.hi - last'.lo + 1)
                    /\ consumer'.num = consumer.num + 1
                    /\ consumer'.lbound = last'.hi + 1
                    /\ consumer'.state = IF last'.hi = bounds.ubound THEN "returned" ELSE "running"
          /\ (pc = "massive" /\ pc' = "run" /\ can_continue) =>
              /\ head_num(hive_blocks') = bounds.ubound
              /\ (bounds.lbound..bounds.ubound) \subseteq Nums(hive_blocks')
              /\ consumer.lbound = bounds.ubound + 1
              /\ (consumer.num - 1) * LIMIT_FOR_PROCESSED_BLOCKS < bounds.ubound - bounds.lbound + 1
              /\ bounds.ubound - bounds.lbound + 1 <= consumer.num * LIMIT_FOR_PROCESSED_BLOCKS]_vars
    /\ (pc = "massive") ~> (pc # "massive" \/ producer.state = "raised")

\* a massive run over 1..2001 has ended after three batches
C19_Witness ==
    /\ last.op = "massive_end"
    /\ ~last.raised
    /\ can_continue
    /\ pc = "run"
    /\ consumer.num = 3
    /\ bounds.lbound = 1
    /\ bounds.ubound = 2 * LIMIT_FOR_PROCESSED_BLOCKS + 1
    /\ head_num(hive_blocks) = bounds.ubound

\* C20 (in-flight header buffer): whenever no process_multi call is in
\* progress, after a commit and after a failed batch alike,
\* Blocks.blocks_to_flush is empty.
C20_BufferEmpty == blocks_to_flush = <<>>

\* the flusher calls and the COMMIT of a call's log, in the order they were
\* made
FlushLog(log) ==
    LET sel == SelectSeq(log, LAMBDA e : e.call \in Flushers \cup {"COMMIT"})
    IN  [i \in DOMAIN sel |-> sel[i].call]

FlushOrder ==
    <<"PostDataCache.flush", "Tags.flush", "Votes.flush", "_flush_blocks", "Follow.flush",
      "COMMIT">>

\* C21 (flush order): a process_multi call that returns has run
\* PostDataCache.flush, Tags.flush, Votes.flush, the block-header flush and
\* Follow.flush in exactly this order, after the last block was processed,
\* and COMMIT after all of them; in a call that raises, the flushers that
\* ran are the first of that order, so the headers are never written before
\* the post-data, tags and votes flushers have completed.
C21_FlushOrder ==
    last.op = "process_multi" =>
        /\ \A i \in DOMAIN FlushLog(last.log) : FlushLog(last.log)[i] = FlushOrder[i]
        /\ Len(FlushLog(last.log)) <= Len(FlushOrder)
        /\ ~last.raised =>
              /\ FlushLog(last.log) = FlushOrder
              /\ \A i \in DOMAIN FlushOrder :
                    last.log[Len(last.log) - Len(FlushOrder) + i].call = FlushOrder[i]
        /\ last.raised => Len(FlushLog(last.log)) < Len(FlushOrder)

\* a massive batch of several blocks that returned
C21_Witness ==
    /\ last.op = "process_multi"
    /\ ~last.raised
    /\ last.hi > last.lo
    /\ FlushLog(last.log) = FlushOrder
    /\ Len(last.log) > Len(FlushOrder) + 1

\* C22 (effective votes): prepare_vops returns for a vop list that holds
\* effective_comment_vote operations, and for each of them the
\* effective-votes map has an entry for its author/permlink and the
\* comment-payout sequence of that key has its {pending_payout} entry.
C22_EffectiveVotes ==
    last.op = "prepare_vops" =>
        \A i \in DOMAIN last.vops :
            last.vops[i].type = "effective_comment_vote_operation" =>
                /\ ~last.got.raised
                /\ VopKeyOf(last.vops[i]) \in DOMAIN last.got.vote_ops
                /\ VopKeyOf(last.vops[i]) \in DOMAIN last.got.comment_payout_ops
                /\ \E j \in DOMAIN last.got.comment_payout_ops[VopKeyOf(last.vops[i])] :
                      last.got.comment_payout_ops[VopKeyOf(last.vops[i])][j] =
                          [op_type |-> "effective_comment_vote_operation",
                           val |-> [pending_payout |-> last.vops[i].value.pending_payout]]

\* C23 (no context-state violation): in every reachable state, whatever
\* massive runs, single-mode iterations, failed massive runs and shutdowns
\* led to it, hive.app_context_attach was never called on an attached
\* context and hive.app_context_detach never on a detached one.
C23_NoContextViolation == ~ctx.violation

\* the shutdown of the last process found the context detached, as a
\* failed massive run leaves it, and attached it
C23_Witness ==
    /\ last.op = "exit"
    /\ ~last.attached
    /\ starts = MaxStarts
    /\ ctx.attached
    /\ ~ctx.violation

\* C24 (follow flush outside the transaction): Follow.flush is not called
\* between START TRANSACTION and COMMIT of process_multi, and a call in
\* which Follow.flush raised (the headers were flushed, no later statement
\* was reached) has the headers of its batch committed.
C24_FollowOutsideTransaction ==
    last.op = "process_multi" =>
        /\ \A i \in DOMAIN last.log :
              last.log[i].call = "Follow.flush" =>
                  \E j \in 1..(i - 1) : last.log[j].call = "COMMIT"
        /\ (last.raised /\ \E i \in DOMAIN last.log : last.log[i].call = "_flush_blocks") =>
              (last.lo..last.hi) \subseteq Nums(hive_blocks)

\* C25 (head-only popping): _pop removes the blocks of its list when they
\* are the highest blocks of the store in descending num order, each being
\* the head when it is deleted, and leaves the rows below them as they were;
\* on any other list it aborts with "can only pop head block" and no block
\* is removed.
C25_HeadOnlyPop ==
    last.op = "_pop" =>
        IF \A i \in DOMAIN last.to_pop : last.to_pop[i].num = last.head_before - i + 1
        THEN /\ last.err = ""
             /\ head_num(hive_blocks) = last.head_before - Len(last.to_pop)
             /\ hive_blocks = SubSeq(last.rows_before, 1, last.head_before - Len(last.to_pop))
        ELSE /\ last.err = "can only pop head block"
             /\ hive_blocks = last.rows_before

\* three blocks popped from the head down
C25_Witness ==
    /\ last.op = "_pop"
    /\ last.err = ""
    /\ Len(last.to_pop) = MaxPop
    /\ Len(hive_blocks) = Len(last.rows_before) - MaxPop

\* the step of _process a call belongs to: 1 account registration, 2 dispatch
\* of the regular operations, 3 the custom_json batch, 4 virtual operations;
\* 0 and 5: what process_multi does before and after the block
Pass(call) ==
    CASE call = "START TRANSACTION" -> 0
      [] call = "Accounts.register" -> 1
      [] call \in {"Accounts.dirty", "Posts.comment_op", "Posts.delete_op",
                   "Posts.comment_options_op", "Payments.op_transfer"} -> 2
      [] call = "CustomOp.process_ops" -> 3
      [] call \in {"hived.get_virtual_operations", "Votes.effective_comment_vote_op",
                   "Posts.comment_payout_op"} -> 4
      [] OTHER -> 5

\* C26 (order within a block): within one block the calls are made in the
\* order account registration, dispatch of the operations that are not
\* custom_json, the custom_json operations as one batch, the virtual
\* operations; the cached head date is updated only after them: every date
\* passed for a block that follows another in the process is the date of the
\* block before, and after the call the head date is that of the block.
C26_BlockOrder ==
    (last.op = "process_multi" /\ last.mode = "block") =>
        /\ \A i, j \in DOMAIN last.log :
              i < j => Pass(last.log[i].call) <= Pass(last.log[j].call)
        /\ Cardinality({i \in DOMAIN last.log : last.log[i].call = "CustomOp.process_ops"}) <= 1
        /\ \A i \in DOMAIN last.log :
              (last.log[i].call \in DateTaggedCalls /\ last.head_before > 0)
                  => last.log[i].date = RowAt(hive_blocks, last.head_before).date
        /\ ~last.raised => head_block_date = RowAt(hive_blocks, last.hi).date

\* a block whose first operation is a custom_json one: both its custom_json
\* operations reach CustomOp together after the transfer and the comment
\* that follow them, and before the payouts of the block
C26_Witness ==
    /\ last.op = "process_multi"
    /\ last.mode = "block"
    /\ ~last.raised
    /\ last.head_before > 0
    /\ last.hi \in DOMAIN last.txs
    /\ Len(last.txs[last.hi]) = 2
    /\ last.txs[last.hi][1].operations[1].type = "custom_json_operation"
    /\ \E i, j, k, l \in DOMAIN last.log :
          /\ i < j /\ j < k /\ k < l
          /\ last.log[i].call = "Payments.op_transfer"
          /\ last.log[j].call = "Posts.comment_op"
          /\ last.log[k].call = "CustomOp.process_ops"
          /\ Len(last.log[k].arg) = 2
          /\ last.log[l].call = "Posts.comment_payout_op"

\* C27 as stated (massive/single boundary): with test_last_block_for_massive
\* configured, no batch committed by a massive run holds a block above that
\* boundary.
C27_MassiveBoundary ==
    (last.op = "process_multi" /\ last.mode = "massive" /\ ~last.raised
     /\ conf.test_last_block_for_massive # 0)
        => last.hi <= conf.test_last_block_for_massive

\* C28 as stated (periodic actions): after block n was processed in single
\* mode, the community posts and ranks are refreshed exactly if n is a
\* multiple of 200, and the payout stats and the mentions regenerated exactly
\* if n is a multiple of 1200.
C28_PeriodicActions ==
    (last.op = "process_multi" /\ last.mode = "single" /\ ~last.raised) =>
        /\ ("update_communities_posts_and_rank" \in last.periodic) <=> (last.lo % 200 = 0)
        /\ ({"PayoutStats.generate", "Mentions.refresh"} \subseteq last.periodic)
              <=> (last.lo % 1200 = 0)

\* the operation at position p = <<num, transaction, index>> of txs
OpAt(txs, p) == txs[p[1]][p[2]].operations[p[3]].value

\* the call was made with argument arg
Called(log, call, arg) == \E i \in DOMAIN log : log[i].call = call /\ log[i].arg = arg

\* the accounts an operation of the block gives to Accounts.dirty when the
\* block is not processed in initial sync
DirtyOf(txs) ==
    UNION {{OpAt(txs, p).author, OpAt(txs, p).voter} : p \in OpsOfType(txs, "vote_operation")}
    \cup {OpAt(txs, p).author : p \in OpsOfType(txs, "comment_operation")}
    \cup {OpAt(txs, p).account : p \in OpsOfType(txs, "account_update_operation")
                                       \cup OpsOfType(txs, "account_update2_operation")}

\* C29 as stated (dispatch table): in both sync modes the author and the
\* voter of every vote and the author of every comment are marked dirty; only
\* the account of an account_update or account_update2 is left unmarked in
\* initial sync.
C29_DispatchTable ==
    (last.op = "process_multi" /\ ~last.raised) =>
        /\ \A p \in OpsOfType(last.txs, "vote_operation") :
              /\ Called(last.log, "Accounts.dirty", OpAt(last.txs, p).author)
              /\ Called(last.log, "Accounts.dirty", OpAt(last.txs, p).voter)
        /\ \A p \in OpsOfType(last.txs, "comment_operation") :
              /\ Called(last.log, "Posts.comment_op", OpAt(last.txs, p))
              /\ Called(last.log, "Accounts.dirty", OpAt(last.txs, p).author)
        /\ \A p \in OpsOfType(last.txs, "account_update_operation")
                       \cup OpsOfType(last.txs, "account_update2_operation") :
              Called(last.log, "Accounts.dirty", OpAt(last.txs, p).account)
                  <=> ~last.is_initial_sync

\* C29 (dispatch table): every comment is forwarded to Posts in both sync
\* modes; the accounts marked dirty are, outside initial sync, the author and
\* the voter of every vote, the author of every comment and the account of
\* every account_update and account_update2, and in initial sync none.
C29_Dispatch ==
    (last.op = "process_multi" /\ ~last.raised) =>
        /\ \A p \in OpsOfType(last.txs, "comment_operation") :
              Called(last.log, "Posts.comment_op", OpAt(last.txs, p))
        /\ {last.log[i].arg : i \in {j \in DOMAIN last.log : last.log[j].call = "Accounts.dirty"}}
              = IF last.is_initial_sync THEN {} ELSE DirtyOf(last.txs)

\* a block with a vote processed in initial sync: its transfer is dispatched,
\* no account is marked dirty
C29_Witness ==
    /\ last.op = "process_multi"
    /\ ~last.raised
    /\ last.is_initial_sync
    /\ OpsOfType(last.txs, "vote_operation") # {}
    /\ \E i \in DOMAIN last.log : last.log[i].call = "Payments.op_transfer"
    /\ \A i \in DOMAIN last.log : last.log[i].call # "Accounts.dirty"

\* C30 (test cap): with test_max_block configured, in a process that starts
\* with the local head at or below it, with or without
\* test_last_block_for_massive, no process_multi call is given a block above
\* the cap, in massive or single mode, and head_num() <= test_max_block in
\* every reachable state.
C30_TestCap ==
    conf.test_max_block # 0 =>
        /\ head_num(hive_blocks) <= conf.test_max_block
        /\ last.op = "process_multi" => last.hi <= conf.test_max_block
        /\ pc \in {"run", "massive"} => bounds.ubound <= conf.test_max_block

\* a massive run under a limit of massive sync above the cap: its range was
\* set to end at the limit, then cut at the cap, and its last batch ends at
\* the cap while upstream has an irreversible block above it
C30_Witness ==
    /\ last.op = "process_multi"
    /\ last.mode = "massive"
    /\ ~last.raised
    /\ conf.test_last_block_for_massive > conf.test_max_block
    /\ last.hi = conf.test_max_block
    /\ head_num(hive_blocks) = conf.test_max_block
    /\ up_lib > conf.test_max_block

\* C31 (single-threaded hot path): a worker thread is alive only while the
\* main thread waits in the massive run, and the main thread is about to call
\* process_multi only when the provider's futures have returned and no
\* consumer exists, so that no two threads are inside process_multi at a
\* time; a call in massive mode is a step of the running consumer that leaves
\* the main thread waiting, and a call in single mode is a step of the main
\* thread after the provider's futures settled.
C31_SingleThreaded ==
    /\ [](/\ (consumer.state = "running" \/ producer.state = "running") => pc = "massive"
          /\ pc = "single" => (consumer.state = "idle" /\ producer.state = "returned"))
    /\ [][(last'.op = "process_multi" /\ last' # last) =>
            IF last'.mode = "massive"
            THEN /\ pc = "massive" /\ pc' = "massive"
                 /\ consumer.state = "running"
                 /\ producer' = producer
            ELSE /\ last'.mode = "single"
                 /\ pc = "single"
                 /\ consumer.state = "idle"
                 /\ producer.state = "returned"]_vars

\* the consumer's batch is committed while the main thread still waits in
\* the massive run, the producer's future having returned
C31_Witness ==
    /\ last.op = "process_multi"
    /\ last.mode = "massive"
    /\ ~last.raised
    /\ pc = "massive"
    /\ consumer.state = "returned"
    /\ producer.state = "returned"

====
